---- MODULE Spec2Model ----
(***************************************************************************)
(* Content ingestion pipeline of muselog: extraction of a source (pdf,     *)
(* image, audio, youtube, text) into text segments, and persistence of the *)
(* Source with its Chunks (Prisma transaction in lib/content-processor.ts  *)
(* and app/api/store-source/route.ts, plain Supabase inserts in the older  *)
(* route of the same file).                                                *)
(*                                                                         *)
(* Text that the code inspects character by character (descriptions, file  *)
(* extensions, captions) is a sequence of one-character strings; an error  *)
(* message is the sequence of its words.                                   *)
(***************************************************************************)
EXTENDS Integers, Sequences, FiniteSets, TLC

(* ---------------------------- bounds ----------------------------------- *)
MaxRuns == 1

MaxSegs == 2

MaxPolls == 2

(* ------------------------ program constants ---------------------------- *)
SummaryLen == 200

VideoIdLen == 11

(* --------------------------- text values ------------------------------- *)
Empty == <<>>

Hello == <<"H","e","l","l","o"," ","w","o","r","l","d",".">>

LongText == [i \in 1..(SummaryLen + 1) |-> IF i % 2 = 1 THEN "x" ELSE "y"]

Min(a, b) == IF a < b THEN a ELSE b

\* String.prototype.substring(0, n)
Substring0(s, n) == SubSeq(s, 1, Min(n, Len(s)))

\* An element of a provider array: a string, or a value that is not a string.
S(s) == [str |-> TRUE, s |-> s]

NonStr == [str |-> FALSE, s |-> Empty]

\* A JavaScript value in the position of ProcessingResult.text.
JUndef == [t |-> "undefined", items |-> <<>>, s |-> Empty]

JStr(s) == [t |-> "string", items |-> <<>>, s |-> s]

JArr(a) == [t |-> "array", items |-> a, s |-> Empty]

JNum == [t |-> "number", items |-> <<>>, s |-> Empty]

\* JavaScript truthiness, as used by `x || fallback`.
Truthy(v) ==
  CASE v.t = "undefined" -> FALSE
    [] v.t = "string"    -> v.s # Empty
    [] OTHER             -> TRUE

\* a || b
OrElse(a, b) == IF Truthy(a) THEN a ELSE b

(* --------------------------- messages ---------------------------------- *)
MsgPdfPath == <<"File","path","is","required","for","PDF","processing">>

MsgImagePath == <<"File","path","is","required","for","image","processing">>

MsgAudioPath == <<"File","path","is","required","for","audio","processing">>

MsgUrlRequired == <<"URL","is","required","for","YouTube","processing">>

MsgInvalidUrl == <<"Invalid","YouTube","URL">>

MsgUnsupportedType(t) == <<"Unsupported","source","type:", t>>

MsgNoKey == <<"GEMINI_API_KEY","environment","variable","is","not","set">>

MsgFileNotFound == <<"File","not","found","at","path:">>

MsgPdfFailed == <<"Failed","to","process","PDF","with","Gemini","AI">>

MsgImageFailed == <<"Failed","to","process","image","with","Gemini","AI">>

MsgAudioFailed == <<"Failed","to","process","audio","with","Gemini","AI">>

MsgUnsupportedImage == <<"Unsupported","image","format:">>

MsgUnsupportedAudio == <<"Unsupported","audio","format:">>

MsgNoTranscript == <<"No","transcript","available","for","this","video">>

MsgYouTubePrefix == <<"Failed","to","process","YouTube","video:">>

MsgClientUnsupported(t) ==
  <<"Client-side","processing","not","supported","for","type:", t>>

MsgStoreFailed == <<"Failed","to","store","source:">>

Contains(msg, w) == \E i \in 1..Len(msg) : msg[i] = w

(* ------------------------ file paths and URLs -------------------------- *)
PathPdf == <<"d",".","p","d","f">>

PathMissing == <<"m",".","p","d","f">>

PathPngUpper == <<"i",".","P","N","G">>

PathJpeg == <<"i",".","j","p","e","g">>

PathBmp == <<"i",".","b","m","p">>

PathNoExt == <<"p","i","c">>

PathOgg == <<"a",".","o","g","g">>

PathMpeg == <<"a",".","m","p","e","g">>

\* The files present on the server's disk (fs.existsSync).
ExistingFiles ==
  {PathPdf, PathPngUpper, PathJpeg, PathBmp, PathNoExt, PathOgg, PathMpeg}

UrlShort == <<"h","t","t","p","s",":","/","/","y","o","u","t","u",".","b","e","/","d","Q","w","4","w","9","W","g","X","c","Q">>

UrlWatch == <<"h","t","t","p","s",":","/","/","y",".","c","o","m","/","w","a","t","c","h","?","v","=","d","Q","w","4","w","9","W","g","X","c","Q","&","t","=","1">>

UrlTooShort == <<"h","t","t","p","s",":","/","/","y","o","u","t","u",".","b","e","/","d","Q","w","4">>

UrlTooLong == <<"h","t","t","p","s",":","/","/","y","o","u","t","u",".","b","e","/","d","Q","w","4","w","9","W","g","X","c","Q","Q">>

UrlNoMarker == <<"h","t","t","p","s",":","/","/","y",".","c","o","m","/","p","a","g","e">>

UrlTwoMarkers == <<"h","t","t","p","s",":","/","/","y","o","u","t","u",".","b","e","/","d","Q","w","4","w","9","W","g","X","c","Q","&","v","=","a","b","c">>

UrlUserPath == <<"h","t","t","p","s",":","/","/","y",".","c","o","m","/","u","/","a","/","d","Q","w","4","w","9","W","g","X","c","Q","#","x">>

\* Positions of character c in s.
Positions(s, c) == {i \in 1..Len(s) : s[i] = c}

Max(set) == CHOOSE x \in set : \A y \in set : y <= x

\* path.extname: from the last "." of the basename to the end; "" when the
\* basename has no "." or only a leading one.
extname(p) ==
  LET slashes == Positions(p, "/")
      base    == IF slashes = {} THEN 1 ELSE Max(slashes) + 1
      dots    == {i \in Positions(p, ".") : i > base}
  IN  IF dots = {} THEN Empty ELSE SubSeq(p, Max(dots), Len(p))

LowerChar(c) ==
  CASE c = "P" -> "p" [] c = "N" -> "n" [] c = "G" -> "g"
    [] c = "J" -> "j" [] c = "M" -> "m" [] c = "O" -> "o"
    [] OTHER -> c

toLowerCase(s) == [i \in 1..Len(s) |-> LowerChar(s[i])]

\* The extension switch of processImage; "" stands for the default branch.
ImageMime(ext) ==
  CASE ext = <<".","j","p","g">>     -> "image/jpeg"
    [] ext = <<".","j","p","e","g">> -> "image/jpeg"
    [] ext = <<".","p","n","g">>     -> "image/png"
    [] ext = <<".","w","e","b","p">> -> "image/webp"
    [] ext = <<".","g","i","f">>     -> "image/gif"
    [] OTHER                         -> ""

\* The extension switch of processAudio; "" stands for the default branch.
AudioMime(ext) ==
  CASE ext = <<".","m","p","3">> -> "audio/mp3"
    [] ext = <<".","w","a","v">> -> "audio/wav"
    [] ext = <<".","o","g","g">> -> "audio/ogg"
    [] OTHER                     -> ""

\* \w of the regular expression.
WordChars ==
  {"a","b","c","d","e","f","g","h","i","j","k","l","m","n","o","p","q","r",
   "s","t","u","v","w","x","y","z","A","B","C","D","E","F","G","H","I","J",
   "K","L","M","N","O","P","Q","R","S","T","U","V","W","X","Y","Z","0","1",
   "2","3","4","5","6","7","8","9","_"}

\* One element of a pattern against one character: "ANY" is `.`, "WORD" is \w.
ElemMatch(e, c) ==
  CASE e = "ANY"  -> c \notin {"\n", "\r"}
    [] e = "WORD" -> c \in WordChars
    [] OTHER      -> e = c

\* The alternatives of group 1, in the order of the regular expression.
Markers ==
  << <<"y","o","u","t","u","ANY","b","e","/">>,
     <<"v","/">>,
     <<"u","/","WORD","/">>,
     <<"e","m","b","e","d","/">>,
     <<"w","a","t","c","h","?","v","=">>,
     <<"&","v","=">> >>

MatchAt(url, p, m) ==
  /\ p + Len(m) - 1 <= Len(url)
  /\ \A k \in 1..Len(m) : ElemMatch(m[k], url[p + k - 1])

NoVideoId == [ok |-> FALSE, id |-> Empty]

\* The length test written as `>= 11`.
extractYouTubeVideoIdAtLeast(url) ==
  LET cands == {p \in 1..Len(url) :
                  \E k \in 1..Len(Markers) : MatchAt(url, p, Markers[k])}
  IN  IF cands = {} THEN NoVideoId
      ELSE
        LET p     == Max(cands)
            k     == CHOOSE j \in 1..Len(Markers) :
                       /\ MatchAt(url, p, Markers[j])
                       /\ \A h \in 1..(j - 1) : ~MatchAt(url, p, Markers[h])
            start == p + Len(Markers[k])
            stops == {i \in start..Len(url) : url[i] \in {"#", "&", "?"}}
            last  == IF stops = {} THEN Len(url)
                     ELSE (CHOOSE i \in stops : \A j \in stops : i <= j) - 1
            group == SubSeq(url, start, last)
        IN  IF Len(group) >= VideoIdLen THEN [ok |-> TRUE, id |-> group]
            ELSE NoVideoId

\* /^.*(youtu.be\/|v\/|u\/\w\/|embed\/|watch\?v=|&v=)([^#&?]*).*/ : the greedy
\* prefix makes group 1 the rightmost marker, group 2 runs to the next # & ?.
extractYouTubeVideoId(url) ==
  LET cands == {p \in 1..Len(url) :
                  \E k \in 1..Len(Markers) : MatchAt(url, p, Markers[k])}
  IN  IF cands = {} THEN NoVideoId
      ELSE
        LET p     == Max(cands)
            k     == CHOOSE j \in 1..Len(Markers) :
                       /\ MatchAt(url, p, Markers[j])
                       /\ \A h \in 1..(j - 1) : ~MatchAt(url, p, Markers[h])
            start == p + Len(Markers[k])
            stops == {i \in start..Len(url) : url[i] \in {"#", "&", "?"}}
            last  == IF stops = {} THEN Len(url)
                     ELSE (CHOOSE i \in stops : \A j \in stops : i <= j) - 1
            group == SubSeq(url, start, last)
        IN  IF Len(group) = VideoIdLen THEN [ok |-> TRUE, id |-> group]
            ELSE NoVideoId

(* --------------------------- captions ---------------------------------- *)
\* \s of the regular expression.
IsWs(c) == c \in {" ", "\n", "\t", "\r"}

\* Array.prototype.join(" ") over the cue texts.
RECURSIVE JoinSpace(_)
JoinSpace(texts) ==
  IF texts = <<>> THEN Empty
  ELSE IF Len(texts) = 1 THEN texts[1]
  ELSE texts[1] \o <<" ">> \o JoinSpace(Tail(texts))

\* String.prototype.replace(/\s+/g, " ")
CollapseWs(s) ==
  LET F[i \in 0..Len(s)] ==
        IF i = 0 THEN Empty
        ELSE IF IsWs(s[i])
             THEN IF i > 1 /\ IsWs(s[i - 1]) THEN F[i - 1]
                  ELSE Append(F[i - 1], " ")
             ELSE Append(F[i - 1], s[i])
  IN  F[Len(s)]

\* The transcript joined without the replace call.
FullTextJoined(transcript) == JoinSpace(transcript)

\* processYouTubeVideo: the transcript as one text.
FullText(transcript) == CollapseWs(JoinSpace(transcript))

MsgPlaceholderSummary ==
  <<"T","r","a","n","s","c","r","i","p","t"," ","o","f"," ","Y","o","u","T",
    "u","b","e"," ","v","i","d","e","o"," ","(","s","u","m","m","a","r","y",
    " ","n","o","t"," ","a","v","a","i","l","a","b","l","e"," ","w","i","t",
    "h","o","u","t"," ","G","e","m","i","n","i"," ","A","I",")">>

MsgProcessedSummary ==
  <<"Y","o","u","T","u","b","e"," ","v","i","d","e","o"," ","t","r","a","n",
    "s","c","r","i","p","t"," ","(","p","r","o","c","e","s","s","e","d",
    ")">>

(* ------------------------- records and inputs -------------------------- *)
\* SourceData.  description, url and title are Empty when absent; the current
\* interface (content-processor.ts:59) has `name`, the Supabase route reads
\* `title`.
SD(type, desc, url, title) ==
  [type |-> type, name |-> <<"n">>, description |-> desc, url |-> url,
   title |-> title, spaceId |-> "s1"]

NoSD == SD("", Empty, Empty, Empty)

\* ProcessingResult { text, summary }.
PR(text, summary) == [text |-> text, summary |-> summary]

NoPr == PR(JUndef, JUndef)

\* SourceProcessingResult; sourceId 0 stands for "", status is the HTTP status
\* of a request to the route (0 for a direct function call).
Result(id, s, desc, n, ok, err, status) ==
  [sourceId |-> id, name |-> s.name, description |-> desc, chunkCount |-> n,
   success |-> ok, error |-> err, status |-> status]

\* description: sourceData.description || ""
FailureResult(s, err) == Result(0, s, JStr(s.description), 0, FALSE, err, 0)

\* error instanceof Error ? error.message : String(error)
ErrorText(err) == err

\* Messages of errors raised by the libraries the code calls.
MsgUploadFailed == <<"Failed","to","upload","file","to","Gemini","AI">>

\* files[0].name, as given by the upload.
UploadedFileName == "files/abc123"

MsgFileState(state) ==
  <<"File", UploadedFileName, "failed","to","process","with","state:", state>>

MsgProvider == <<"[GoogleGenerativeAI","Error]">>

MsgJsonParse == <<"Unexpected","token","in","JSON">>

MsgNullText == <<"Cannot","read","properties","of","null">>

MsgTranscriptLib == <<"[YoutubeTranscript]","Transcript","is","disabled">>

MsgNotArray == <<"processingResult.text.map","is","not","a","function">>

MsgDbFailed == <<"Invalid","prisma","invocation">>

MsgSbFailed == <<"[object","Object]">>

MsgNoSourceRecord == <<"Failed","to","create","source","record">>

MsgFileReader == <<"[object","ProgressEvent]">>

MsgFetchFailed == <<"fetch","failed">>

MsgMissingData == <<"Missing","required","data">>

Types == {"pdf", "image", "youtube", "audio", "text", "link"}

Urls ==
  {Empty, UrlShort, UrlWatch, UrlTooShort, UrlTooLong, UrlNoMarker,
   UrlTwoMarkers}

\* Arguments of processAndStoreSource(filePath, sourceData).
ServerInputs ==
       [path : {Empty, PathPdf, PathMissing},
        sd : {SD("pdf", d, Empty, Empty) : d \in {Empty, Hello}}]
  \cup [path : {Empty, PathPngUpper, PathJpeg, PathBmp, PathNoExt},
        sd : {SD("image", Empty, Empty, Empty)}]
  \cup [path : {Empty, PathOgg, PathMpeg, PathPngUpper},
        sd : {SD("audio", Empty, Empty, Empty)}]
  \cup [path : {Empty}, sd : {SD("youtube", Empty, u, Empty) : u \in Urls}]
  \cup [path : {Empty},
        sd : {SD(t, d, Empty, Empty) : t \in {"text", "link"},
                                       d \in {Empty, Hello, LongText}}]

(* ------------------- extraction: synchronous parts --------------------- *)
\* What a piece of code does up to its next suspension point: it throws, it
\* awaits an external call, or it has produced the ProcessingResult.  site
\* tells a throw of processAndStoreSource's own checks ("input") from one of
\* an extractor ("extract").
Throw(site, msg) ==
  [k |-> "throw", site |-> site, msg |-> msg, to |-> "", pr |-> NoPr]

Await(to) ==
  [k |-> "await", site |-> "", msg |-> Empty, to |-> to, pr |-> NoPr]

Extracted(p) ==
  [k |-> "extracted", site |-> "", msg |-> Empty, to |-> "", pr |-> p]

TextNotProvided ==
  <<"T","e","x","t"," ","c","o","n","t","e","n","t"," ","n","o","t"," ","p",
    "r","o","v","i","d","e","d">>

TextSource ==
  <<"T","e","x","t"," ","s","o","u","r","c","e">>

\* processPDF before its try block.
processPDF(key, path) ==
  IF ~key THEN Throw("extract", MsgNoKey)
  ELSE IF path \notin ExistingFiles THEN Throw("extract", MsgFileNotFound)
  ELSE Await("upload")

\* processImage with the extension switch after the upload.
processImageUploadFirst(path) == Await("upload")

\* processImage before its try block.
processImage(path) ==
  IF ImageMime(toLowerCase(extname(path))) = ""
  THEN Throw("extract", MsgUnsupportedImage)
  ELSE Await("upload")

\* processAudio before its try block.
processAudio(path) ==
  IF AudioMime(toLowerCase(extname(path))) = ""
  THEN Throw("extract", MsgUnsupportedAudio)
  ELSE Await("upload")

\* The "text" case without the substring call.
TextResultWholeSummary(s) ==
  PR(JArr(<<S(IF s.description # Empty THEN s.description
             ELSE TextNotProvided)>>),
     OrElse(JStr(s.description), JStr(TextSource)))

\* The "text" case of processAndStoreSource.
TextResult(s) ==
  PR(JArr(<<S(IF s.description # Empty THEN s.description
             ELSE TextNotProvided)>>),
     OrElse(JStr(Substring0(s.description, SummaryLen)), JStr(TextSource)))

\* The switch of processAndStoreSource.
Dispatch(key, path, s) ==
  CASE s.type = "pdf" ->
         IF path = Empty THEN Throw("input", MsgPdfPath)
         ELSE processPDF(key, path)
    [] s.type = "image" ->
         IF path = Empty THEN Throw("input", MsgImagePath)
         ELSE processImage(path)
    [] s.type = "youtube" ->
         IF s.url = Empty THEN Throw("input", MsgUrlRequired)
         ELSE IF ~extractYouTubeVideoId(s.url).ok
              THEN Throw("input", MsgInvalidUrl)
              ELSE Await("fetch")
    [] s.type = "audio" ->
         IF path = Empty THEN Throw("input", MsgAudioPath)
         ELSE processAudio(path)
    [] s.type = "text" -> Extracted(TextResult(s))
    [] OTHER -> Throw("input", MsgUnsupportedType(s.type))

\* The catch blocks of processPDF, processImage and processAudio replace the
\* error by a fixed message.
WrapMsg(type) ==
  CASE type = "pdf"   -> MsgPdfFailed
    [] type = "image" -> MsgImageFailed
    [] OTHER          -> MsgAudioFailed

\* A catch block with a fixed message, as in processPDF.
YouTubeWrapFixed(msg) == <<"Failed","to","process","YouTube","video">>

\* An error of the try block of processPDF, processImage or processAudio
\* ends in their catch block, which throws the fixed message instead.
ExtractorCatch(type, e) ==
  IF e.k = "throw" THEN Throw("extract", WrapMsg(type)) ELSE e

\* waitForFilesActive after a getFile that did not answer PROCESSING:
\* "throw" is a rejection of getFile itself.
waitForFilesActive(state) ==
  CASE state = "ACTIVE" -> Await("generate")
    [] state = "throw"  -> Throw("extract", MsgProvider)
    [] OTHER            -> Throw("extract", MsgFileState(state))

\* The catch block of processYouTubeVideo keeps the message of the error.
YouTubeWrap(msg) == MsgYouTubePrefix \o msg

\* The parsed JSON answer of a generation call.
Resp(kind, text, summary) == [kind |-> kind, text |-> text, summary |-> summary]

\* No answer yet.
NoResp == Resp("none", JUndef, JUndef)

Items == {S(<<"a">>), S(Empty), NonStr}

Arrays == UNION {[1..n -> Items] : n \in 0..MaxSegs}

TextVals == {JUndef, JStr(<<"a">>)} \cup {JArr(a) : a \in Arrays}

SummaryVals == {JUndef, JStr(<<"s">>), JNum}

\* Every shape of text with a well-formed summary, and every shape of
\* summary with a well-formed text.
Responses ==
  {Resp(k, JUndef, JUndef) : k \in {"throw", "badjson", "null"}}
  \cup {Resp("obj", t, JStr(<<"s">>)) : t \in TextVals}
  \cup {Resp("obj", JArr(<<S(<<"a">>)>>), m) : m \in SummaryVals}

\* The code after `await chatSession.sendMessage(...)` in processPDF,
\* processImage and processAudio, with their catch block.
AfterGenerate(type, resp) ==
  CASE resp.kind = "throw"   -> Throw("extract", WrapMsg(type))
    [] resp.kind = "badjson" -> Throw("extract", WrapMsg(type))
    [] resp.kind = "null"    -> Throw("extract", WrapMsg(type))
    [] OTHER -> Extracted(PR(OrElse(resp.text, JArr(<<>>)),
                             OrElse(resp.summary, JStr(Empty))))

\* A transcript is the list of the cue texts.  NoTranscript is null,
\* FetchThrew the rejection of fetchTranscript, NotFetched no answer yet.
NoTranscript == << <<"null">> >>

FetchThrew == << <<"throw">> >>

NotFetched == << <<"pending">> >>

\* processYouTubeVideo after `await fetchTranscript(videoId)`.
AfterFetch(key, transcript) ==
  IF transcript = FetchThrew THEN Throw("extract", YouTubeWrap(MsgTranscriptLib))
  ELSE IF transcript = NoTranscript \/ Len(transcript) = 0
  THEN Throw("extract", YouTubeWrap(MsgNoTranscript))
  ELSE IF ~key
  THEN Extracted(PR(JArr(<<S(FullText(transcript))>>),
                    JStr(MsgPlaceholderSummary)))
  ELSE Await("yt_generate")

\* processYouTubeVideo after `await model.generateContent(...)`.
AfterYouTubeGenerate(text, resp) ==
  CASE resp.kind = "throw"   -> Throw("extract", YouTubeWrap(MsgProvider))
    [] resp.kind = "badjson" -> Throw("extract", YouTubeWrap(MsgJsonParse))
    [] resp.kind = "null"    -> Throw("extract", YouTubeWrap(MsgNullText))
    [] OTHER -> Extracted(PR(OrElse(resp.text, JArr(<<S(text)>>)),
                             OrElse(resp.summary, JStr(MsgProcessedSummary))))

\* A catch block that rethrows instead of building the failure result.
processAndStoreSourceCatchRethrows(s, msg) ==
  [k |-> "throw", r |-> FailureResult(s, ErrorText(msg))]

\* The catch block of processAndStoreSource.
processAndStoreSourceCatch(s, msg) ==
  [k |-> "result", r |-> FailureResult(s, ErrorText(msg))]

(* ----------------------- embeddings: values ---------------------------- *)
\* A float32 number: sign bit, biased exponent (8 bits), fraction (23 bits).
F32(sign, exp, mant) == [sign |-> sign, exp |-> exp, mant |-> mant]

\* 0, 1, -2.5, the float32 nearest to 0.1, the smallest subnormal.
Floats ==
  {F32(0, 0, 0), F32(0, 127, 0), F32(1, 128, 2097152), F32(0, 123, 5033165),
   F32(0, 0, 1)}

\* The four bytes of a float32 in the order of Float32Array's memory
\* (little-endian).
F32Bytes(f) ==
  <<f.mant % 256,
    (f.mant \div 256) % 256,
    (f.exp % 2) * 128 + f.mant \div 65536,
    f.sign * 128 + f.exp \div 2>>

\* The float32 held by four bytes.
F32OfBytes(b) ==
  F32(b[4] \div 128,
      (b[4] % 128) * 2 + b[3] \div 128,
      (b[3] % 128) * 65536 + b[2] * 256 + b[1])

\* A value of type number[] | undefined.
Emb(v) == [def |-> TRUE, v |-> v]

EmbUndefined == [def |-> FALSE, v |-> <<>>]

\* new Float32Array(embedding): of undefined it is empty.
Float32ArrayOf(e) == IF e.def THEN e.v ELSE <<>>

\* The bytes of a Float32Array's buffer.
RECURSIVE BytesOf(_)
BytesOf(floats) ==
  IF floats = <<>> THEN <<>>
  ELSE F32Bytes(Head(floats)) \o BytesOf(Tail(floats))

\* A Buffer: a view of byteLength bytes at byteOffset of an ArrayBuffer.
Buffer(bytes, byteOffset, byteLength) ==
  [buffer |-> bytes, byteOffset |-> byteOffset, byteLength |-> byteLength]

\* Buffer.from(float32Array.buffer) shares the whole ArrayBuffer.
embeddingToBuffer(embedding) ==
  LET bytes == BytesOf(Float32ArrayOf(embedding))
  IN  Buffer(bytes, 0, Len(bytes))

\* The floats of an ArrayBuffer whose length is a multiple of 4.
FloatsOf(bytes) ==
  [i \in 1..(Len(bytes) \div 4) |-> F32OfBytes(SubSeq(bytes, 4 * i - 3, 4 * i))]

\* A decoder that reads the whole floats and drops the bytes left over.
bufferToEmbeddingTruncates(buffer) ==
  LET slice == SubSeq(buffer.buffer, buffer.byteOffset + 1,
                      buffer.byteOffset + buffer.byteLength)
  IN  [k |-> "ok", v |-> FloatsOf(slice)]

\* A decoder over buffer.buffer itself, without the slice of the view.
bufferToEmbeddingWholeBuffer(buffer) ==
  IF Len(buffer.buffer) % 4 # 0 THEN [k |-> "throw", v |-> <<>>]
  ELSE [k |-> "ok", v |-> FloatsOf(buffer.buffer)]

\* new Float32Array(arrayBuffer) throws a RangeError when the byte length is
\* not a multiple of 4.
bufferToEmbedding(buffer) ==
  LET slice == SubSeq(buffer.buffer, buffer.byteOffset + 1,
                      buffer.byteOffset + buffer.byteLength)
  IN  IF Len(slice) % 4 # 0 THEN [k |-> "throw", v |-> <<>>]
      ELSE [k |-> "ok", v |-> FloatsOf(slice)]

EmbedMaxChars == 8000

\* generateEmbedding: text.length > 8000 ? text.substring(0, 8000) : text
Truncated(text) ==
  IF Len(text) > EmbedMaxChars THEN SubSeq(text, 1, EmbedMaxChars) ELSE text

\* The vector of d components the embedding model computes for a text.
VecOf(text, d) ==
  [i \in 1..d |->
     IF i % 2 = 0 THEN F32(0, 123, 5033165)
     ELSE IF text = <<"a">> THEN F32(0, 127, 0)
     ELSE IF text = <<"b">> THEN F32(1, 128, 2097152)
     ELSE F32(0, 0, 1)]

\* No operation, no outcome, no codec call.
NoOp ==
  [name |-> "none", id |-> 0, hasContent |-> FALSE, content |-> Empty,
   hasUser |-> FALSE, tags |-> "", metadata |-> "",
   buf |-> Buffer(<<>>, 0, 0), hasBuf |-> FALSE,
   spaceId |-> "", limit |-> 0, pre |-> {}]

NoRet == [k |-> "none", msg |-> Empty, data |-> <<>>, old |-> <<>>]

NoCodec ==
  [stage |-> "none", src |-> "none", v |-> <<>>, buf |-> Buffer(<<>>, 0, 0),
   out |-> [k |-> "none", v |-> <<>>]]

(* ------------------------------ state ---------------------------------- *)
VARIABLES
  serverApiKey,  \* GEMINI_API_KEY is set
  pc,            \* the suspension point the ingestion in progress waits at
  entry,         \* "server": processAndStoreSource, "client":
                 \* processClientFileAndStore, "route": POST /api/store-source
  sd,            \* sourceData
  filePath,      \* filePath argument
  pr,            \* processingResult
  transcript,    \* transcript of processYouTubeVideo
  polls,         \* polls of waitForFilesActive that answered PROCESSING
  calls,         \* external calls issued by the ingestion in progress
  failedAt,      \* where the ingestion in progress failed, "none" if nowhere
  tx,            \* rows written inside the open prisma.$transaction
  sources,       \* committed rows of Source (Prisma)
  chunks,        \* committed rows of Chunk (Prisma)
  sbSources,     \* rows of public.sources (Supabase)
  sbChunks,      \* rows of public.source_chunks (Supabase)
  nextId,        \* next fresh row id
  http,          \* response of the route to the client in progress
  result,        \* what the caller of the ingestion in progress received
  runs,          \* ingestions started so far
  pre,           \* the tables when the ingestion in progress started
  fileState,     \* last state of the uploaded file seen by waitForFilesActive
  response,      \* last answer of a generation call
  body,          \* body of the request the route handles
  echunks,       \* rows of Chunk written by createChunk and updateChunk
  epc,           \* what the call of lib/data or lib/embeddings waits for
  eop,           \* that call: its name and arguments
  eret,          \* what the last such call returned or threw
  ecalls,        \* external calls issued by that call
  ops,           \* such calls started so far
  codec,         \* a call of embeddingToBuffer / bufferToEmbedding
  db,            \* the tables of schema.prisma, a set of rows each
  dbNext,        \* next fresh row id of db
  dop,           \* the last statement db executed
  par,           \* the ingestions that run concurrently, one record each
  grid,          \* state and props of the mounted SpacesGrid
  del,           \* the call of deleteSpaces in progress, or the last one
  req            \* the last request to create a space and its answer

vars ==
  <<serverApiKey, pc, entry, sd, filePath, pr, transcript, polls, calls,
    failedAt, tx, sources, chunks, sbSources, sbChunks, nextId, http,
    result, runs, pre, fileState, response, body,
    echunks, epc, eop, eret, ecalls, ops, codec,
    db, dbNext, dop, par, grid, del, req>>

embVars == <<echunks, epc, eop, eret, ecalls, ops, codec>>

ingestVars ==
  <<serverApiKey, pc, entry, sd, filePath, pr, transcript, polls, calls,
    failedAt, tx, sources, chunks, sbSources, sbChunks, nextId, http,
    result, runs, pre, fileState, response, body>>

relVars == <<db, dbNext, dop>>

spaceVars == <<grid, del, req>>

extVars == <<relVars, par, spaceVars>>

(* ------------------------- prisma/schema.prisma ------------------------ *)
\* The tables (@@map) of Space, Source, Chunk, Note, Chat, ChatMessage and
\* Citation.  Every row of them belongs to a user who exists throughout.
Models ==
  {"spaces", "sources", "chunks", "notes", "chats", "chat_messages",
   "citations"}

\* One @relation of a model that holds the foreign key.
Relation(child, field, parent, onDelete, required) ==
  [child |-> child, field |-> field, parent |-> parent,
   onDelete |-> onDelete, required |-> required]

\* The @relation lines of the seven models.
Relations ==
  {Relation("sources", "spaceId", "spaces", "Cascade", TRUE),
   Relation("chunks", "sourceId", "sources", "Cascade", TRUE),
   Relation("notes", "spaceId", "spaces", "Cascade", TRUE),
   Relation("chats", "spaceId", "spaces", "Cascade", TRUE),
   Relation("chat_messages", "chatId", "chats", "Cascade", TRUE),
   Relation("citations", "chunkId", "chunks", "Cascade", TRUE),
   Relation("citations", "messageId", "chat_messages", "SetNull", FALSE)}

\* NULL in a foreign key column; row ids start at 1.
NullId == 0

RelationsOf(t) == {rel \in Relations : rel.child = t}

\* Source.space without onDelete: Cascade and without a constraint: the
\* sources of a deleted space stay.
RelationsToButSources(t) ==
  {rel \in Relations : rel.parent = t /\ rel.child # "sources"}

\* The relations whose referential action a delete in table t sets off.
RelationsTo(t) == {rel \in Relations : rel.parent = t}

Ids(rows) == {r.id : r \in rows}

EmptyDb == [t \in Models |-> {}]

\* What a foreign key constraint admits in a row to insert.
ForeignKeysHold(d, t, row) ==
  \A rel \in RelationsOf(t) :
    \/ row[rel.field] \in Ids(d[rel.parent])
    \/ ~rel.required /\ row[rel.field] = NullId

RECURSIVE Remove(_, _, _)
RECURSIVE RemoveVia(_, _, _)

\* Referential action of the relations in rels when the rows ids of their
\* parent go: SetNull clears the key, Cascade deletes the referencing rows.
RemoveVia(d, rels, ids) ==
  IF rels = {} THEN d
  ELSE LET rel  == CHOOSE x \in rels : TRUE
           refs == {r \in d[rel.child] : r[rel.field] \in ids}
           next ==
             IF rel.onDelete = "SetNull"
             THEN [d EXCEPT ![rel.child] =
                     (@ \ refs)
                     \cup {[r EXCEPT ![rel.field] = NullId] : r \in refs}]
             ELSE Remove(d, rel.child, Ids(refs))
       IN  RemoveVia(next, rels \ {rel}, ids)

\* DELETE of the rows ids of table t with the referential actions it sets
\* off.
Remove(d, t, ids) ==
  IF ids = {} THEN d
  ELSE RemoveVia([d EXCEPT ![t] = {r \in @ : r.id \notin ids}],
                 RelationsTo(t), ids)

\* prisma.<model>.delete({where: {id}}): throws when no such row exists or
\* the database fails (ok FALSE).
PrismaDeleteOutcome(d, t, id, ok) ==
  IF ok /\ id \in Ids(d[t])
  THEN [db |-> Remove(d, t, {id}), ok |-> TRUE]
  ELSE [db |-> d, ok |-> FALSE]

\* deleteSpace, deleteSource, deleteNote, deleteChunk: true when the delete
\* resolved, false from the catch block.
deleteSpace(d, id, ok) == PrismaDeleteOutcome(d, "spaces", id, ok)

NoDop ==
  [op |-> "none", table |-> "", id |-> NullId, removed |-> {}, nulled |-> {}]

\* An empty database nothing was executed on.
RelIdle ==
  /\ db = EmptyDb
  /\ dbNext = 1
  /\ dop = NoDop

\* Nothing of lib/data and lib/embeddings has been called.
EmbIdle ==
  /\ echunks = {}
  /\ epc = "idle"
  /\ eop = NoOp
  /\ eret = NoRet
  /\ ecalls = {}
  /\ ops = 0
  /\ codec = NoCodec

Tables ==
  [sources |-> sources, chunks |-> chunks,
   sbSources |-> sbSources, sbChunks |-> sbChunks]

TxNone == [source |-> {}, chunks |-> {}, pending |-> {}]

\* The parsed body of a request: processingResult and sourceData present or
\* not; parse FALSE is a body request.json() rejects.
Body(parse, hasPr, hasSd, p, s) ==
  [parse |-> parse, hasPr |-> hasPr, hasSd |-> hasSd, pr |-> p, sd |-> s]

\* No request.
NoBody == Body(FALSE, FALSE, FALSE, NoPr, NoSD)

\* No result yet.
NoResult == [FailureResult(NoSD, Empty) EXCEPT !.status = -1]

NoHttp == [status |-> 0, body |-> NoResult]

\* tx.source.create({data: {name, description, url, type, space}})
SourceRow(id, s, desc) ==
  [id |-> id, name |-> s.name, description |-> desc, type |-> s.type,
   url |-> s.url, spaceId |-> s.spaceId]

\* chunk_index counted from one.
ChunkRowOneBased(id, sourceId, content, index) ==
  [id |-> id, sourceId |-> sourceId, content |-> content,
   chunk_index |-> index + 1]

\* tx.chunk.create({data: {content, metadata: {chunk_index}, source}})
ChunkRow(id, sourceId, content, index) ==
  [id |-> id, sourceId |-> sourceId, content |-> content,
   chunk_index |-> index]

\* Writes issued on the client instead of tx: the source row survives.
TransactionAbortKeepsSource(t) == [source |-> t.source, chunks |-> {}]

\* The rows of a prisma.$transaction whose callback threw that stay in the
\* database: none.
TransactionAbort(t) == [source |-> {}, chunks |-> {}]

\* The catch block of storeProcessedContentWithPrisma.
storeProcessedContentWithPrismaCatch(s, msg) ==
  FailureResult(s, ErrorText(msg))

\* The success result of storeProcessedContentWithPrisma.
StoreSuccess(row, n) ==
  Result(row.id, row, OrElse(row.description, JStr(Empty)), n, TRUE, Empty, 0)

\* An ingestion of processAndStoreSource: its arguments, its local
\* variables and where it is suspended.  overlap tells that it wrote inside
\* its transaction while the transaction of another ingestion was open.
Task(at, s, path) ==
  [pc |-> at, sd |-> s, path |-> path, pr |-> NoPr, tx |-> TxNone,
   result |-> NoResult, failedAt |-> "none", overlap |-> FALSE]

Tasks == {"A", "B"}

NoTasks == [i \in Tasks |-> Task("none", NoSD, Empty)]

\* SpacesGrid as it mounts with the prop spaces: the useState initial
\* values; pc tells whether handleDelete awaits deleteSpaces.
Mounted(spaces) ==
  [isEditMode |-> FALSE, selectedSpaces |-> <<>>, isDialogOpen |-> FALSE,
   spaces |-> spaces, pc |-> "ready"]

\* No call of deleteSpaces.
NoDel ==
  [pc |-> "idle", caller |-> "", ids |-> <<>>, i |-> 1,
   success |-> <<>>, failed |-> <<>>, attempts |-> <<>>]

\* No request.
NoReq ==
  [path |-> "", parse |-> FALSE, null |-> FALSE, name |-> JUndef,
   status |-> 0, created |-> FALSE]

SpacesIdle == grid = Mounted({}) /\ del = NoDel /\ req = NoReq

ExtIdle == RelIdle /\ par = NoTasks /\ SpacesIdle

\* No ingestion has started.
IngestInit ==
  /\ serverApiKey \in BOOLEAN
  /\ pc = "idle"
  /\ entry = "none"
  /\ sd = NoSD
  /\ filePath = Empty
  /\ pr = NoPr
  /\ transcript = NotFetched
  /\ polls = 0
  /\ calls = {}
  /\ failedAt = "none"
  /\ tx = TxNone
  /\ sources = {}
  /\ chunks = {}
  /\ sbSources = {}
  /\ sbChunks = {}
  /\ nextId = 1
  /\ http = NoHttp
  /\ result = NoResult
  /\ runs = 0
  /\ pre = Tables
  /\ fileState = "none"
  /\ response = NoResp
  /\ body = NoBody

Init == IngestInit /\ EmbIdle /\ ExtIdle

(* --------------------- how an ingestion ends --------------------------- *)
\* The entry point returns r to its caller.
Return(r) ==
  /\ result' = r
  /\ pc' = "idle"

\* An entry point ends with outcome o: a result for its caller, or an
\* exception that escapes it.
Finish(o) ==
  IF o.k = "throw"
  THEN /\ pc' = "rejected"
       /\ UNCHANGED result
  ELSE Return(o.r)

\* A store function returns r: to processAndStoreSource, which returns it, or
\* to the POST handler, which answers NextResponse.json(r).
StoreReturn(r) ==
  CASE entry = "server" -> Return(r) /\ UNCHANGED http
    [] entry = "route"  -> Return([r EXCEPT !.status = 200]) /\ UNCHANGED http
    [] OTHER            -> /\ http' = [status |-> 200, body |-> r]
                           /\ pc' = "c_response"
                           /\ UNCHANGED result

\* processAndStoreSource with the store call moved out of the try block's
\* normal flow: it is issued after a failed extraction as well.
GotoStoresAfterThrow(e, s, c) ==
  /\ pr' = e.pr
  /\ CASE e.k = "await" ->
            /\ pc' = e.to
            /\ calls' = c \cup {e.to}
            /\ failedAt' = "none"
            /\ result' = NoResult
       [] e.k = "throw" ->
            /\ pc' = "tx_source"
            /\ calls' = c \cup {"db"}
            /\ failedAt' = e.site
            /\ result' = NoResult
       [] OTHER ->
            /\ pc' = "tx_source"
            /\ calls' = c \cup {"db"}
            /\ failedAt' = "none"
            /\ result' = NoResult

\* processAndStoreSource continues with what the extractor did: e.  c are
\* the calls issued so far.  Until it returns its caller has no result.
Goto(e, s, c) ==
  /\ pr' = e.pr
  /\ CASE e.k = "await" ->
            /\ pc' = e.to
            /\ calls' = c \cup {e.to}
            /\ failedAt' = "none"
            /\ result' = NoResult
       [] e.k = "throw" ->
            /\ calls' = c
            /\ failedAt' = e.site
            /\ Finish(processAndStoreSourceCatch(s, e.msg))
       [] OTHER ->
            /\ pc' = "tx_source"
            /\ calls' = c \cup {"db"}
            /\ failedAt' = "none"
            /\ result' = NoResult

(* ----------------------- processAndStoreSource ------------------------- *)
ServerStart ==
  /\ pc = "idle"
  /\ runs < MaxRuns
  /\ runs' = runs + 1
  /\ \E in \in ServerInputs :
       /\ entry' = "server"
       /\ sd' = in.sd
       /\ filePath' = in.path
       /\ Goto(Dispatch(serverApiKey, in.path, in.sd), in.sd, {})
  /\ fileState' = "none"
  /\ response' = NoResp
  /\ body' = NoBody
  /\ transcript' = NotFetched
  /\ polls' = 0
  /\ tx' = TxNone
  /\ pre' = Tables
  /\ http' = NoHttp
  /\ UNCHANGED <<serverApiKey, sources, chunks, sbSources, sbChunks, nextId>>
  /\ UNCHANGED <<embVars, extVars>>

\* `await fileManager.uploadFile(...)` returns or throws.
UploadReturn ==
  /\ pc = "upload"
  /\ \E ok \in BOOLEAN :
       Goto(ExtractorCatch(sd.type, IF ok THEN Await("poll")
                                    ELSE Throw("extract", MsgUploadFailed)),
            sd, calls)
  /\ UNCHANGED <<fileState, response, body, serverApiKey, runs, entry, sd, filePath, transcript, polls, tx, http,
                 sources, chunks, sbSources, sbChunks, nextId, pre>>
  /\ UNCHANGED <<embVars, extVars>>

\* `await fileManager.getFile(name)` of waitForFilesActive returns a state.
PollReturn ==
  /\ pc = "poll"
  /\ \E state \in {"PROCESSING", "ACTIVE", "FAILED", "throw"} :
       IF state = "PROCESSING"
       THEN /\ polls < MaxPolls
            /\ polls' = polls + 1
            /\ fileState' = state
            /\ UNCHANGED <<pc, pr, calls, failedAt, result>>
       ELSE /\ fileState' = state
            /\ Goto(ExtractorCatch(sd.type, waitForFilesActive(state)),
                    sd, calls)
            /\ polls' = 0
  /\ UNCHANGED <<response, body, serverApiKey, runs, entry, sd, filePath, transcript, tx, http,
                 sources, chunks, sbSources, sbChunks, nextId, pre>>
  /\ UNCHANGED <<embVars, extVars>>

\* `await chatSession.sendMessage(...)` returns or throws.
GenerateReturn ==
  /\ pc = "generate"
  /\ \E resp \in Responses :
       /\ response' = resp
       /\ Goto(AfterGenerate(sd.type, resp), sd, calls)
  /\ UNCHANGED <<fileState, body, serverApiKey, runs, entry, sd, filePath, transcript, polls, tx, http,
                 sources, chunks, sbSources, sbChunks, nextId, pre>>
  /\ UNCHANGED <<embVars, extVars>>

\* A rejection, null, no cue, one cue, two cues.
Transcripts ==
  {FetchThrew, NoTranscript, <<>>, << <<"a", " ">> >>, << <<"a", " ">>, <<"\n", "b">> >>}

\* `await youtubeTranscript.default.fetchTranscript(videoId)` returns or throws.
FetchReturn(T) ==
  /\ pc = "fetch"
  /\ \E t \in T :
       /\ transcript' = t
       /\ Goto(AfterFetch(serverApiKey, t), sd, calls)
  /\ UNCHANGED <<fileState, response, body, serverApiKey, runs, entry, sd, filePath, polls, tx, http,
                 sources, chunks, sbSources, sbChunks, nextId, pre>>
  /\ UNCHANGED <<embVars, extVars>>

\* `await model.generateContent(...)` of processYouTubeVideo returns or throws.
YouTubeGenerateReturn ==
  /\ pc = "yt_generate"
  /\ \E resp \in Responses :
       /\ response' = resp
       /\ Goto(AfterYouTubeGenerate(FullText(transcript), resp), sd, calls)
  /\ UNCHANGED <<fileState, body, serverApiKey, runs, entry, sd, filePath, transcript, polls, tx, http,
                 sources, chunks, sbSources, sbChunks, nextId, pre>>
  /\ UNCHANGED <<embVars, extVars>>

(* ----------------- storeProcessedContentWithPrisma --------------------- *)
\* The transaction callback threw, or the commit failed: $transaction
\* rejects, the catch block builds the failure result.  The ids of rows that
\* were rolled back were never visible and are handed out again.
StoreFailed(t, at, msg) ==
  /\ sources' = sources \cup TransactionAbort(t).source
  /\ chunks' = chunks \cup TransactionAbort(t).chunks
  /\ tx' = TxNone
  /\ nextId' = IF t.source # {} /\ TransactionAbort(t).source = {}
               THEN (CHOOSE r \in t.source : TRUE).id
               ELSE nextId
  /\ failedAt' = at
  /\ StoreReturn(storeProcessedContentWithPrismaCatch(sd, msg))

\* `await tx.source.create(...)` returns or throws; on return the chunk
\* creates are all issued by processingResult.text.map.
TxSourceReturn ==
  /\ pc = "tx_source"
  /\ \E ok \in BOOLEAN :
       LET desc == OrElse(JStr(sd.description), pr.summary)
           row  == SourceRow(nextId, sd, desc)
           t    == [source |-> {row}, chunks |-> {},
                    pending |-> 1..Len(pr.text.items)]
       IN  IF ~(ok /\ desc.t = "string")
           THEN StoreFailed(TxNone, "source", MsgDbFailed)
           ELSE IF pr.text.t # "array"
                THEN StoreFailed([t EXCEPT !.pending = {}], "map", MsgNotArray)
                ELSE /\ nextId' = nextId + 1
                     /\ tx' = t
                     /\ pc' = IF t.pending = {} THEN "tx_commit"
                              ELSE "tx_chunks"
                     /\ UNCHANGED <<sources, chunks, failedAt, result, http>>
  /\ UNCHANGED <<fileState, response, body, serverApiKey, runs, entry, sd, filePath, pr, transcript, polls,
                 calls, sbSources, sbChunks, pre>>
  /\ UNCHANGED <<embVars, extVars>>

\* One of the chunk creates awaited by Promise.all returns or throws.
TxChunkReturn ==
  /\ pc = "tx_chunks"
  /\ \E i \in tx.pending, ok \in BOOLEAN :
       LET item == pr.text.items[i]
           src  == CHOOSE r \in tx.source : TRUE
           row  == ChunkRow(nextId, src.id, item.s, i - 1)
           t    == [tx EXCEPT !.chunks = @ \cup {row}, !.pending = @ \ {i}]
       IN  IF ~(ok /\ item.str)
           THEN StoreFailed(tx, "chunk", MsgDbFailed)
           ELSE /\ nextId' = nextId + 1
                /\ tx' = t
                /\ pc' = IF t.pending = {} THEN "tx_commit" ELSE "tx_chunks"
                /\ UNCHANGED <<sources, chunks, failedAt, result, http>>
  /\ UNCHANGED <<fileState, response, body, serverApiKey, runs, entry, sd, filePath, pr, transcript, polls,
                 calls, sbSources, sbChunks, pre>>
  /\ UNCHANGED <<embVars, extVars>>

\* The callback returned {source, chunkCount}; the transaction commits or
\* the commit fails.
TxCommit ==
  /\ pc = "tx_commit"
  /\ \E ok \in BOOLEAN :
       IF ok
       THEN /\ sources' = sources \cup tx.source
            /\ chunks' = chunks \cup tx.chunks
            /\ tx' = TxNone
            /\ StoreReturn(StoreSuccess(CHOOSE r \in tx.source : TRUE,
                                           Len(pr.text.items)))
            /\ UNCHANGED <<failedAt, nextId>>
       ELSE StoreFailed(tx, "commit", MsgDbFailed)
  /\ UNCHANGED <<fileState, response, body, serverApiKey, runs, entry, sd, filePath, pr, transcript, polls,
                 calls, sbSources, sbChunks, pre>>
  /\ UNCHANGED <<embVars, extVars>>

(* ---------- storeProcessedContent (Supabase) of the route -------------- *)
\* supabase.from("sources").insert({title, description, url, type, ...})
SbSourceRow(id, s, desc) ==
  [id |-> id, title |-> s.title, description |-> desc, type |-> s.type,
   url |-> s.url, space_id |-> s.spaceId]

\* {source_id, content, chunk_index}
SbChunkRow(sourceId, item, index) ==
  [source_id |-> sourceId, content |-> item, chunk_index |-> index]

\* The catch block of storeProcessedContent; its `title` is held by name.
storeProcessedContentCatch(s, msg) ==
  Result(0, [name |-> s.title], JStr(s.description), 0, FALSE,
         ErrorText(msg), 0)

\* The insert of the source row returns; `title` is NOT NULL in the table.
\* On success the chunk rows are built and their insert is issued.
SbSourceReturn ==
  /\ pc = "sb_source"
  /\ \E ok \in BOOLEAN :
       LET desc == OrElse(JStr(sd.description), pr.summary)
           row  == SbSourceRow(nextId, sd, desc)
       IN  IF ~(ok /\ sd.title # Empty)
           THEN /\ failedAt' = "sb_source"
                /\ StoreReturn(storeProcessedContentCatch(sd, MsgSbFailed))
                /\ UNCHANGED <<sbSources, nextId>>
           ELSE /\ sbSources' = sbSources \cup {row}
                /\ nextId' = nextId + 1
                /\ IF pr.text.t # "array"
                   THEN /\ failedAt' = "sb_map"
                        /\ StoreReturn(storeProcessedContentCatch(sd, MsgNotArray))
                   ELSE /\ pc' = "sb_chunks"
                        /\ UNCHANGED <<failedAt, result, http>>
  /\ UNCHANGED <<fileState, response, body, serverApiKey, runs, entry, sd, filePath, pr, transcript, polls,
                 calls, tx, sources, chunks, sbChunks, pre>>
  /\ UNCHANGED <<embVars, extVars>>

\* The insert of all chunk rows (one statement) returns.
SbChunksReturn ==
  /\ pc = "sb_chunks"
  /\ \E ok \in BOOLEAN :
       LET src  == CHOOSE r \in sbSources : r.id = nextId - 1
           rows == {SbChunkRow(src.id, pr.text.items[i], i - 1) :
                      i \in 1..Len(pr.text.items)}
       IN  IF ok
           THEN /\ sbChunks' = sbChunks \cup rows
                /\ UNCHANGED failedAt
                /\ StoreReturn(Result(src.id, [name |-> sd.title],
                                      src.description, Len(pr.text.items),
                                      TRUE, Empty, 0))
           ELSE /\ failedAt' = "sb_chunks"
                /\ StoreReturn(storeProcessedContentCatch(sd, MsgSbFailed))
                /\ UNCHANGED sbChunks
  /\ UNCHANGED <<fileState, response, body, serverApiKey, runs, entry, sd, filePath, pr, transcript, polls,
                 calls, tx, sources, chunks, sbSources, nextId, pre>>
  /\ UNCHANGED <<embVars, extVars>>

(* -------------------- POST /api/store-source --------------------------- *)
RouteVariants == {"supabase", "prisma"}

\* The kind of database call a variant of the route issues.
StoreCall(variant) == IF variant = "supabase" THEN "supabase" ELSE "db"

RouteBodies ==
  {Body(FALSE, FALSE, FALSE, NoPr, NoSD),
   Body(TRUE, FALSE, FALSE, NoPr, NoSD),
   Body(TRUE, FALSE, TRUE, NoPr, SD("image", Empty, Empty, <<"t">>)),
   Body(TRUE, TRUE, FALSE, PR(JArr(<<>>), JStr(<<"s">>)), NoSD)}
  \cup {Body(TRUE, TRUE, TRUE, PR(t, JStr(<<"s">>)), SD("image", Empty, Empty, ti)) :
          t \in TextVals, ti \in {Empty, <<"t">>}}

\* A handler that answers 500 to every request it does not store.
RouteEntryAlways500(variant, b) ==
  IF ~b.parse THEN [status |-> 500, to |-> ""]
  ELSE IF ~b.hasPr \/ ~b.hasSd THEN [status |-> 500, to |-> ""]
  ELSE [status |-> 0, to |-> IF variant = "supabase" THEN "sb_source"
                            ELSE "tx_source"]

\* The POST handler up to its first await after request.json(): what it
\* answers at once, or which store function it awaits.
RouteEntry(variant, b) ==
  IF ~b.parse THEN [status |-> 500, to |-> ""]
  ELSE IF ~b.hasPr \/ ~b.hasSd THEN [status |-> 400, to |-> ""]
  ELSE [status |-> 0, to |-> IF variant = "supabase" THEN "sb_source"
                            ELSE "tx_source"]

\* The body of an answer that is not a SourceProcessingResult: {error}.
ErrorBody(status, msg) ==
  [FailureResult(NoSD, msg) EXCEPT !.status = status]

\* A request of some client of the route arrives.
RouteStart ==
  /\ pc = "idle"
  /\ runs < MaxRuns
  /\ runs' = runs + 1
  /\ \E variant \in RouteVariants, b \in RouteBodies :
       LET e == RouteEntry(variant, b)
       IN  /\ entry' = "route"
           /\ body' = b
           /\ sd' = b.sd
           /\ pr' = b.pr
           /\ IF e.status # 0
              THEN /\ Return(ErrorBody(e.status,
                                       IF e.status = 400 THEN MsgMissingData
                                       ELSE MsgJsonParse))
                   /\ calls' = {}
                   /\ failedAt' = "request"
              ELSE /\ pc' = e.to
                   /\ calls' = {StoreCall(variant)}
                   /\ failedAt' = "none"
                   /\ result' = NoResult
  /\ fileState' = "none"
  /\ response' = NoResp
  /\ filePath' = Empty
  /\ transcript' = NotFetched
  /\ polls' = 0
  /\ tx' = TxNone
  /\ pre' = Tables
  /\ http' = NoHttp
  /\ UNCHANGED <<serverApiKey, sources, chunks, sbSources, sbChunks, nextId>>
  /\ UNCHANGED <<embVars, extVars>>

(* -------------------- processClientFileAndStore ------------------------ *)
RawText == <<"r","a","w">>

SummaryUnstructured ==
  <<"U","n","s","t","r","u","c","t","u","r","e","d"," ","c","o","n","t","e",
    "n","t"," ","e","x","t","r","a","c","t","e","d">>

SummaryParseFailed ==
  <<"F","a","i","l","e","d"," ","t","o"," ","p","a","r","s","e"," ","s","t",
    "r","u","c","t","u","r","e","d"," ","r","e","s","p","o","n","s","e">>

SummaryNone ==
  <<"N","o"," ","s","u","m","m","a","r","y"," ","p","r","o","v","i","d","e",
    "d">>

SummaryPdfClient ==
  <<"P","D","F"," ","p","r","o","c","e","s","s","i","n","g"," ","f","r","o",
    "m"," ","c","l","i","e","n","t"," ","s","i","d","e"," ","(","l","i","m",
    "i","t","e","d"," ","f","u","n","c","t","i","o","n","a","l","i","t","y",
    ")">>

\* The answer of the vision model as processImageWithGemini reads it: no
\* JSON found in the text, JSON that does not parse, or an object.
ClientResponses ==
  {Resp(k, JUndef, JUndef) : k \in {"throw", "nojson", "badjson"}}
  \cup {Resp("obj", t, JStr(<<"s">>)) : t \in TextVals}
  \cup {Resp("obj", JArr(<<S(<<"a">>)>>), m) : m \in SummaryVals}

\* processImageWithGemini after `await model.generateContent(...)`, then
\* mapToProcessingResult.
AfterClientGenerate(resp) ==
  CASE resp.kind = "throw"   -> Throw("extract", MsgProvider)
    [] resp.kind = "nojson"  ->
         Extracted(PR(JArr(<<S(RawText)>>), JStr(SummaryUnstructured)))
    [] resp.kind = "badjson" ->
         Extracted(PR(JArr(<<S(RawText)>>), JStr(SummaryParseFailed)))
    [] OTHER ->
         Extracted(PR(IF resp.text.t = "array" THEN resp.text
                      ELSE JArr(<<S(RawText)>>),
                      OrElse(resp.summary, JStr(SummaryNone))))

PdfPlaceholder1 ==
  <<"T","h","i","s"," ","i","s"," ","a"," ","p","l","a","c","e","h","o","l",
    "d","e","r"," ","f","o","r"," ","P","D","F"," ","c","o","n","t","e","n",
    "t"," ","p","r","o","c","e","s","s","i","n","g"," ","f","r","o","m"," ",
    "t","h","e"," ","c","l","i","e","n","t"," ","s","i","d","e",".">>

PdfPlaceholder2 ==
  <<"F","o","r"," ","f","u","l","l"," ","P","D","F"," ","p","r","o","c","e",
    "s","s","i","n","g"," ","c","a","p","a","b","i","l","i","t","i","e","s",
    ","," ","u","s","e"," ","t","h","e"," ","s","e","r","v","e","r","-","s",
    "i","d","e"," ","p","r","o","c","e","s","s","P","D","F"," ","f","u","n",
    "c","t","i","o","n",".">>

\* processPdfWithGemini, then mapToProcessingResult.
ClientPdfResult ==
  PR(JArr(<<S(PdfPlaceholder1), S(PdfPlaceholder2)>>), JStr(SummaryPdfClient))

\* The switch of processClientFileAndStore.
ClientDispatch(s) ==
  CASE s.type = "image" -> Await("c_b64")
    [] s.type = "pdf"   -> Extracted(ClientPdfResult)
    [] OTHER -> Throw("input", MsgClientUnsupported(s.type))

\* The catch block of processClientFileAndStore.
processClientFileAndStoreCatch(s, msg) ==
  [k |-> "result", r |-> FailureResult(s, ErrorText(msg))]

\* processClientFileAndStore continues with what the extractor did: e; with
\* a ProcessingResult it issues fetch("/api/store-source").
ClientGoto(e, s, c) ==
  /\ pr' = e.pr
  /\ CASE e.k = "await" ->
            /\ pc' = e.to
            /\ calls' = c \cup {e.to}
            /\ failedAt' = "none"
            /\ result' = NoResult
       [] e.k = "throw" ->
            /\ calls' = c
            /\ failedAt' = e.site
            /\ Finish(processClientFileAndStoreCatch(s, e.msg))
       [] OTHER ->
            /\ pc' = "c_http"
            /\ calls' = c \cup {"http"}
            /\ failedAt' = "none"
            /\ result' = NoResult

ClientInputs ==
  {SD(t, Empty, Empty, Empty) : t \in {"image", "pdf", "audio"}}
  \cup {SD("pdf", Hello, Empty, Empty)}

ClientStart ==
  /\ pc = "idle"
  /\ runs < MaxRuns
  /\ runs' = runs + 1
  /\ \E s \in ClientInputs :
       /\ entry' = "client"
       /\ sd' = s
       /\ ClientGoto(ClientDispatch(s), s, {})
  /\ fileState' = "none"
  /\ response' = NoResp
  /\ body' = NoBody
  /\ filePath' = Empty
  /\ transcript' = NotFetched
  /\ polls' = 0
  /\ tx' = TxNone
  /\ pre' = Tables
  /\ http' = NoHttp
  /\ UNCHANGED <<serverApiKey, sources, chunks, sbSources, sbChunks, nextId>>
  /\ UNCHANGED <<embVars, extVars>>

\* `await fileToBase64(file)` resolves or rejects with the reader's event.
Base64Return ==
  /\ pc = "c_b64"
  /\ \E ok \in BOOLEAN :
       ClientGoto(IF ok THEN Await("c_generate")
                  ELSE Throw("extract", MsgFileReader), sd, calls)
  /\ UNCHANGED <<fileState, response, body, serverApiKey, runs, entry, sd, filePath, transcript, polls, tx,
                 http, sources, chunks, sbSources, sbChunks, nextId, pre>>
  /\ UNCHANGED <<embVars, extVars>>

\* `await model.generateContent([prompt, image])` returns or throws.
ClientGenerateReturn ==
  /\ pc = "c_generate"
  /\ \E resp \in ClientResponses :
       /\ response' = resp
       /\ ClientGoto(AfterClientGenerate(resp), sd, calls)
  /\ UNCHANGED <<fileState, body, serverApiKey, runs, entry, sd, filePath, transcript, polls, tx,
                 http, sources, chunks, sbSources, sbChunks, nextId, pre>>
  /\ UNCHANGED <<embVars, extVars>>

\* The request reaches the route, whose handler runs up to its first store
\* call, or fetch rejects.
ClientFetch ==
  /\ pc = "c_http"
  /\ \E sent \in BOOLEAN, variant \in RouteVariants :
       IF ~sent
       THEN /\ failedAt' = "http"
            /\ Finish(processClientFileAndStoreCatch(sd, MsgFetchFailed))
            /\ UNCHANGED <<calls, body>>
       ELSE /\ pc' = RouteEntry(variant, Body(TRUE, TRUE, TRUE, pr, sd)).to
            /\ body' = Body(TRUE, TRUE, TRUE, pr, sd)
            /\ calls' = calls \cup {StoreCall(variant)}
            /\ UNCHANGED <<failedAt, result>>
  /\ UNCHANGED <<fileState, response, serverApiKey, runs, entry, sd, filePath, pr, transcript, polls,
                 tx, http, sources, chunks, sbSources, sbChunks, nextId, pre>>
  /\ UNCHANGED <<embVars, extVars>>

\* fetch resolves with the answer of the route, or rejects.
ClientResponse ==
  /\ pc = "c_response"
  /\ \E received \in BOOLEAN :
       IF ~received
       THEN /\ failedAt' = "http"
            /\ Finish(processClientFileAndStoreCatch(sd, MsgFetchFailed))
       ELSE IF http.status # 200
       THEN /\ failedAt' = "http"
            /\ Finish(processClientFileAndStoreCatch(sd, MsgStoreFailed))
       ELSE /\ Return(http.body)
            /\ UNCHANGED failedAt
  /\ UNCHANGED <<fileState, response, body, serverApiKey, runs, entry, sd, filePath, pr, transcript, polls,
                 calls, tx, http, sources, chunks, sbSources, sbChunks,
                 nextId, pre>>
  /\ UNCHANGED <<embVars, extVars>>

Next ==
  \/ ServerStart
  \/ UploadReturn
  \/ PollReturn
  \/ GenerateReturn
  \/ FetchReturn(Transcripts)
  \/ YouTubeGenerateReturn
  \/ TxSourceReturn
  \/ TxChunkReturn
  \/ TxCommit
  \/ SbSourceReturn
  \/ SbChunksReturn
  \/ RouteStart
  \/ ClientStart
  \/ Base64Return
  \/ ClientGenerateReturn
  \/ ClientFetch
  \/ ClientResponse

Spec == Init /\ [][Next]_vars

(* ------------- processYouTubeVideo on a range of transcripts ----------- *)
MaxCueLen == 2

MaxCues == 2

CueChars == {"a", " ", "\n"}

WideCues == UNION {[1..n -> CueChars] : n \in 0..MaxCueLen}

WideTranscripts ==
  {FetchThrew, NoTranscript} \cup UNION {[1..n -> WideCues] : n \in 0..MaxCues}

\* processAndStoreSource awaits the transcript of a video.
InitYT ==
  /\ serverApiKey \in BOOLEAN
  /\ pc = "fetch"
  /\ entry = "server"
  /\ sd = SD("youtube", Empty, UrlShort, Empty)
  /\ filePath = Empty
  /\ pr = NoPr
  /\ transcript = NotFetched
  /\ polls = 0
  /\ calls = {"fetch"}
  /\ failedAt = "none"
  /\ tx = TxNone
  /\ sources = {}
  /\ chunks = {}
  /\ sbSources = {}
  /\ sbChunks = {}
  /\ nextId = 1
  /\ http = NoHttp
  /\ result = NoResult
  /\ runs = 1
  /\ pre = Tables
  /\ fileState = "none"
  /\ response = NoResp
  /\ body = NoBody
  /\ EmbIdle
  /\ ExtIdle

NextYT == FetchReturn(WideTranscripts)

SpecYT == InitYT /\ [][NextYT]_vars

(* ------------- embeddingToBuffer and bufferToEmbedding ------------------ *)
MaxDim == 2

MaxBytes == 5

MaxOffset == 1

ByteVals == {0, 63, 128}

Vectors == UNION {[1..n -> Floats] : n \in 0..MaxDim}

RawBytes == UNION {[1..n -> ByteVals] : n \in 0..MaxBytes}

\* A Buffer over bytes that lies at offset o of a larger ArrayBuffer, as the
\* database driver or Node's buffer pool hands it out.
View(bytes, o) ==
  LET pad == [i \in 1..o |-> 255]
  IN  Buffer(pad \o bytes \o pad, o, Len(bytes))

\* Either a vector to encode, or a Buffer of arbitrary bytes to decode.
InitCodec ==
  /\ IngestInit
  /\ ExtIdle
  /\ serverApiKey
  /\ echunks = {}
  /\ epc = "idle"
  /\ eop = NoOp
  /\ eret = NoRet
  /\ ecalls = {}
  /\ ops = 0
  /\ codec \in
       {[NoCodec EXCEPT !.stage = "input", !.src = "vector", !.v = v] :
          v \in Vectors}
       \cup {[NoCodec EXCEPT !.stage = "stored", !.src = "bytes",
                             !.buf = View(b, o)] :
               b \in RawBytes, o \in 0..MaxOffset}

\* embeddingToBuffer(v)
CodecEncode ==
  /\ codec.stage = "input"
  /\ codec' = [codec EXCEPT !.stage = "encoded",
                            !.buf = embeddingToBuffer(Emb(codec.v))]
  /\ UNCHANGED <<echunks, epc, eop, eret, ecalls, ops>>
  /\ UNCHANGED <<ingestVars, extVars>>

\* The encoded bytes come back from storage as a Buffer at some offset.
CodecStore ==
  /\ codec.stage = "encoded"
  /\ \E o \in 0..MaxOffset :
       codec' = [codec EXCEPT !.stage = "stored",
                              !.buf = View(codec.buf.buffer, o)]
  /\ UNCHANGED <<echunks, epc, eop, eret, ecalls, ops>>
  /\ UNCHANGED <<ingestVars, extVars>>

\* bufferToEmbedding(buf)
CodecDecode ==
  /\ codec.stage \in {"encoded", "stored"}
  /\ codec' = [codec EXCEPT !.stage = "decoded",
                            !.out = bufferToEmbedding(codec.buf)]
  /\ UNCHANGED <<echunks, epc, eop, eret, ecalls, ops>>
  /\ UNCHANGED <<ingestVars, extVars>>

NextCodec == CodecEncode \/ CodecStore \/ CodecDecode

SpecCodec == InitCodec /\ [][NextCodec]_vars

(* --------- createChunk, updateChunk, searchSimilarContent -------------- *)
MaxOps == 2

MaxLimit == 2

DefaultLimit == 5

\* match_threshold: 0.5, in hundredths.
MatchThreshold == 50

MsgEmbeddingFailed == <<"Failed","to","generate","embedding">>

MsgCreateChunkFailed == <<"Failed","to","create","chunk">>

MsgUpdateChunkFailed == <<"Failed","to","update","chunk">>

MsgSearchFailed == <<"Failed","to","search","similar","content">>

ChunkContents == {<<"a">>, <<"b">>}

\* What embeddingsModel.embedDocuments([text]) answers: a rejection, or a
\* list that is empty or holds the vector of the text, of some length.
ProviderAnswers(text) ==
  {[k |-> "throw", list |-> <<>>], [k |-> "ok", list |-> <<>>]}
  \cup {[k |-> "ok", list |-> <<VecOf(text, d)>>] : d \in 1..MaxDim}

\* generateEmbedding after `await embeddingsModel.embedDocuments(...)`:
\* embeddings[0], or the error of its catch block.
generateEmbedding(ans) ==
  IF ans.k = "throw" THEN [k |-> "throw", e |-> EmbUndefined]
  ELSE IF ans.list = <<>> THEN [k |-> "ok", e |-> EmbUndefined]
  ELSE [k |-> "ok", e |-> Emb(ans.list[1])]

\* tags and metadata of a call are "" when the argument has none; every
\* other value, the empty array and the empty object included, is truthy.
TagsValues == {"", "[]", "[x]"}

MetadataValues == {"", "{p}"}

\* A row of Chunk; original is its content when it was created.
\* tags: data.tags || [], metadata: data.metadata || {}
EChunkRow(id, content, embedding, tags, metadata) ==
  [id |-> id, content |-> content, embedding |-> embedding,
   original |-> content,
   tags |-> IF tags # "" THEN tags ELSE "[]",
   metadata |-> IF metadata # "" THEN metadata ELSE "{}"]

\* An update that leaves the embedding of the row as it is.
ApplyUpdateContentOnly(row, op) ==
  [row EXCEPT !.content = IF op.content # Empty THEN op.content ELSE @,
              !.tags = IF op.tags # "" THEN op.tags ELSE @,
              !.metadata = IF op.metadata # "" THEN op.metadata ELSE @]

\* An update with `content: data.content` in place of the conditional
\* spread: a call without content, or with "", clears the content.
ApplyUpdateWritesContent(row, op) ==
  [row EXCEPT !.content = op.content,
              !.embedding = IF op.hasBuf THEN op.buf.buffer ELSE @,
              !.tags = IF op.tags # "" THEN op.tags ELSE @,
              !.metadata = IF op.metadata # "" THEN op.metadata ELSE @]

\* prisma.chunk.update({where: {id}, data: {...(content && {content}),
\* ...(tags && {tags}), ...(metadata && {metadata}),
\* ...(embeddingBuffer && {embedding})}}) on the row it finds.
ApplyUpdate(row, op) ==
  [row EXCEPT !.content = IF op.content # Empty THEN op.content ELSE @,
              !.embedding = IF op.hasBuf THEN op.buf.buffer ELSE @,
              !.tags = IF op.tags # "" THEN op.tags ELSE @,
              !.metadata = IF op.metadata # "" THEN op.metadata ELSE @]

\* getCurrentUser returns the signed-in user.
OwnerResolvedByFallback(op) == TRUE

\* `data.userId || (await getCurrentUser()).id` of createChunk yields an
\* owner: getCurrentUser throws.
OwnerResolved(op) == op.hasUser

\* The chunks match_documents searches: id (in order of creation), space,
\* similarity to the query in hundredths.
Doc(id, space, sim) == [id |-> id, space |-> space, sim |-> sim]

Corpus ==
  {Doc(1, "s1", 90), Doc(2, "s1", 80), Doc(3, "s1", 80), Doc(4, "s1", 40),
   Doc(5, "s2", 95), Doc(6, "s2", 70), Doc(7, "s2", 50)}

\* d1 ranks before d2: more similar, or as similar and created later.
RanksBefore(d1, d2) ==
  d1.sim > d2.sim \/ (d1.sim = d2.sim /\ d1.id > d2.id)

RECURSIVE Ranked(_)
Ranked(docs) ==
  IF docs = {} THEN <<>>
  ELSE LET top == CHOOSE d \in docs : \A o \in docs \ {d} : RanksBefore(d, o)
       IN  <<top>> \o Ranked(docs \ {top})

\* The database function match_documents: the chunks above the threshold,
\* of the space if one is given, by descending similarity, at most
\* match_count of them; a negative count is an error.
match_documents(args) ==
  LET cands == {d \in Corpus :
                  /\ d.sim > args.match_threshold
                  /\ args.filter_space_id # "" => d.space = args.filter_space_id}
      all   == Ranked(cands)
  IN  IF args.match_count < 0 THEN [error |-> TRUE, data |-> <<>>]
      ELSE [error |-> FALSE,
            data |-> SubSeq(all, 1, Min(args.match_count, Len(all)))]

\* The arguments without the space filter.
SearchArgsNoFilter(op) ==
  [match_threshold |-> MatchThreshold, match_count |-> op.limit,
   filter_space_id |-> ""]

\* The arguments of supabase.rpc('match_documents', ...); filter_space_id ""
\* stands for the key left out.
SearchArgs(op) ==
  [match_threshold |-> MatchThreshold, match_count |-> op.limit,
   filter_space_id |-> op.spaceId]

\* The call in progress throws msg to its caller.
EThrow(msg) ==
  /\ eret' = [k |-> "throw", msg |-> msg, data |-> <<>>, old |-> <<>>]
  /\ epc' = "idle"

\* updateChunk returns the row it wrote; old is the row it replaced.
EReturnUpdated(old, row) ==
  /\ eret' = [k |-> "ok", msg |-> Empty, data |-> <<row>>, old |-> <<old>>]
  /\ epc' = "idle"

\* The call in progress returns.
EReturn(data) ==
  /\ eret' = [k |-> "ok", msg |-> Empty, data |-> data, old |-> <<>>]
  /\ epc' = "idle"

CatchMsg(op) ==
  CASE op.name = "createChunk" -> MsgCreateChunkFailed
    [] op.name = "updateChunk" -> MsgUpdateChunkFailed
    [] OTHER                   -> MsgSearchFailed

\* createChunk(data) up to `await generateEmbedding(data.content)`.
CreateChunkStart ==
  /\ epc = "idle"
  /\ ops < MaxOps
  /\ ops' = ops + 1
  /\ \E content \in ChunkContents, hasUser \in BOOLEAN,
        tags \in {"", "[x]"} :
       eop' = [NoOp EXCEPT !.name = "createChunk", !.hasContent = TRUE,
                           !.content = content, !.hasUser = hasUser,
                           !.tags = tags, !.pre = echunks]
  /\ epc' = "embed"
  /\ ecalls' = {"embed"}
  /\ eret' = NoRet
  /\ UNCHANGED <<echunks, codec>>
  /\ UNCHANGED <<ingestVars, extVars>>

\* updateChunk(id, data) up to its first await: generateEmbedding when
\* data.content is truthy, prisma.chunk.update otherwise.
UpdateChunkStart ==
  /\ epc = "idle"
  /\ ops < MaxOps
  /\ ops' = ops + 1
  /\ \E id \in 1..MaxOps, hasContent \in BOOLEAN,
        content \in ChunkContents \cup {Empty},
        tags \in TagsValues, metadata \in MetadataValues :
       /\ ~hasContent => content = Empty
       /\ eop' = [NoOp EXCEPT !.name = "updateChunk", !.id = id,
                              !.hasContent = hasContent,
                              !.content = content, !.tags = tags,
                              !.metadata = metadata, !.pre = echunks]
       /\ epc' = IF content # Empty THEN "embed" ELSE "write"
       /\ ecalls' = IF content # Empty THEN {"embed"} ELSE {"db"}
  /\ eret' = NoRet
  /\ UNCHANGED <<echunks, codec>>
  /\ UNCHANGED <<ingestVars, extVars>>

\* searchSimilarContent(query, spaceId, limit) up to
\* `await generateEmbedding(query)`; spaceId "" is no spaceId.
SearchStart ==
  /\ epc = "idle"
  /\ ops < MaxOps
  /\ ops' = ops + 1
  /\ \E spaceId \in {"", "s1", "s2"},
        limit \in (-1..MaxLimit) \cup {DefaultLimit} :
       eop' = [NoOp EXCEPT !.name = "searchSimilarContent",
                           !.content = <<"a">>, !.spaceId = spaceId,
                           !.limit = limit]
  /\ epc' = "embed"
  /\ ecalls' = {"embed"}
  /\ eret' = NoRet
  /\ UNCHANGED <<echunks, codec>>
  /\ UNCHANGED <<ingestVars, extVars>>

\* `await generateEmbedding(...)` returns or throws; the caller goes on to
\* its database call.  createChunk evaluates
\* `data.userId || (await getCurrentUser()).id` first, and getCurrentUser
\* throws.
EmbedReturn ==
  /\ epc = "embed"
  /\ \E ans \in ProviderAnswers(Truncated(eop.content)) :
       LET g == generateEmbedding(ans)
       IN  IF g.k = "throw"
           THEN EThrow(CatchMsg(eop)) /\ UNCHANGED <<eop, ecalls>>
           ELSE IF eop.name = "searchSimilarContent"
           THEN /\ epc' = "rpc"
                /\ ecalls' = ecalls \cup {"rpc"}
                /\ UNCHANGED <<eop, eret>>
           ELSE /\ eop' = [eop EXCEPT !.buf = embeddingToBuffer(g.e),
                                      !.hasBuf = TRUE]
                /\ IF eop.name = "createChunk" /\ ~OwnerResolved(eop)
                   THEN EThrow(CatchMsg(eop)) /\ UNCHANGED ecalls
                   ELSE /\ epc' = "write"
                        /\ ecalls' = ecalls \cup {"db"}
                        /\ UNCHANGED eret
  /\ UNCHANGED <<echunks, ops, codec>>
  /\ UNCHANGED <<ingestVars, extVars>>

\* `await prisma.chunk.create(...)` or `await prisma.chunk.update(...)`
\* returns or throws; update throws when no row has the id.
WriteReturn ==
  /\ epc = "write"
  /\ \E ok \in BOOLEAN :
       IF eop.name = "createChunk"
       THEN IF ok
            THEN LET row == EChunkRow(Cardinality(echunks) + 1, eop.content,
                                      eop.buf.buffer, eop.tags, eop.metadata)
                 IN  /\ echunks' = echunks \cup {row}
                     /\ EReturn(<<row>>)
            ELSE EThrow(CatchMsg(eop)) /\ UNCHANGED echunks
       ELSE IF ok /\ \E r \in echunks : r.id = eop.id
            THEN LET old == CHOOSE r \in echunks : r.id = eop.id
                     row == ApplyUpdate(old, eop)
                 IN  /\ echunks' = (echunks \ {old}) \cup {row}
                     /\ EReturnUpdated(old, row)
            ELSE EThrow(CatchMsg(eop)) /\ UNCHANGED echunks
  /\ UNCHANGED <<eop, ecalls, ops, codec>>
  /\ UNCHANGED <<ingestVars, extVars>>

\* `await supabase.rpc('match_documents', ...)` answers {data, error}.
RpcReturn ==
  /\ epc = "rpc"
  /\ \E ok \in BOOLEAN :
       LET answer == match_documents(SearchArgs(eop))
       IN  IF ok /\ ~answer.error
           THEN EReturn(answer.data)
           ELSE EThrow(CatchMsg(eop))
  /\ UNCHANGED <<echunks, eop, ecalls, ops, codec>>
  /\ UNCHANGED <<ingestVars, extVars>>

NextEmb ==
  \/ CreateChunkStart
  \/ UpdateChunkStart
  \/ SearchStart
  \/ EmbedReturn
  \/ WriteReturn
  \/ RpcReturn

InitEmb == IngestInit /\ serverApiKey /\ EmbIdle /\ ExtIdle

SpecEmb == InitEmb /\ [][NextEmb]_vars

(* ------------- creations and deletions under the schema ---------------- *)
MaxRows == 6

FieldsOf(t) == {rel.field : rel \in RelationsOf(t)}

\* A row of table t: its id and its foreign keys.
Row(t, id, fk) ==
  [f \in {"id"} \cup FieldsOf(t) |-> IF f = "id" THEN id ELSE fk[f]]

\* Every id in the database.
AllIds(d) == UNION {Ids(d[t]) : t \in Models}

\* A statement that changed d into e: the rows it removed and the rows
\* whose key it cleared.
Statement(op, t, id, d, e) ==
  [op |-> op, table |-> t, id |-> id,
   removed |-> AllIds(d) \ AllIds(e),
   nulled |-> Ids(UNION {e[x] : x \in Models} \ UNION {d[x] : x \in Models})
              \cap AllIds(d)]

\* The keys a create may connect to: a row of the parent, a row that does
\* not exist, or none.
Connectable(t) ==
  {fk \in [FieldsOf(t) -> 0..dbNext] :
     \A rel \in RelationsOf(t) :
       fk[rel.field] \in Ids(db[rel.parent]) \cup {NullId, dbNext}}

\* prisma.<model>.create of createSpace, createSource, createNote,
\* createChunk, the ingestion and createCitationsForQuery, and an insert
\* into chats or chat_messages: the database accepts the row or refuses it
\* and nothing changes.
PrismaCreate(t) ==
  /\ dbNext <= MaxRows
  /\ \E fk \in Connectable(t), ok \in BOOLEAN :
       LET row == Row(t, dbNext, fk)
           e   == [db EXCEPT ![t] = @ \cup {row}]
       IN  IF ok /\ ForeignKeysHold(db, t, row)
           THEN /\ db' = e
                /\ dbNext' = dbNext + 1
                /\ dop' = Statement("create", t, dbNext, db, e)
           ELSE UNCHANGED <<db, dbNext, dop>>
  /\ UNCHANGED <<ingestVars, embVars, spaceVars, par>>

\* prisma.<model>.delete of deleteSpace, deleteSource, deleteNote and
\* deleteChunk, and a delete from chats, chat_messages or citations, of a
\* row that exists or of one that does not.
PrismaDelete(t) ==
  /\ \E id \in Ids(db[t]) \cup {dbNext}, ok \in BOOLEAN :
       LET o == PrismaDeleteOutcome(db, t, id, ok)
       IN  IF o.ok
           THEN /\ db' = o.db
                /\ dop' = Statement("delete", t, id, db, o.db)
           ELSE UNCHANGED <<db, dop>>
  /\ UNCHANGED <<dbNext, par>>
  /\ UNCHANGED <<ingestVars, embVars, spaceVars>>

NextDb ==
  \/ \E t \in Models : PrismaCreate(t)
  \/ \E t \in Models : PrismaDelete(t)

\* A space that owns a chat and a source.
SeedDb ==
  [EmptyDb EXCEPT
     !.spaces = {Row("spaces", 1, <<>>)},
     !.chats = {Row("chats", 2, [spaceId |-> 1])},
     !.sources = {Row("sources", 3, [spaceId |-> 1])}]

InitDb ==
  /\ IngestInit
  /\ EmbIdle
  /\ db = SeedDb
  /\ dbNext = 4
  /\ dop = NoDop
  /\ par = NoTasks
  /\ SpacesIdle

SpecDb == InitDb /\ [][NextDb]_vars

(* ------------- two ingestions that run concurrently -------------------- *)
\* The name of the source an ingestion was started for.
NameOf(i) == <<i>>

Digits == <<"1", "2", "3", "4">>

\* The k-th segment the provider extracts from the file of ingestion i.
Segment(i, k) == S(<<i, Digits[k]>>)

\* Arguments of the call of ingestion i: a PDF or a plain text, each source
\* with its own name and description.
ParInput(i, type) ==
  IF type = "pdf"
  THEN Task("idle", [SD("pdf", Empty, Empty, Empty) EXCEPT !.name = NameOf(i)],
            PathPdf)
  ELSE Task("idle", [SD("text", <<i>>, Empty, Empty) EXCEPT !.name = NameOf(i)],
            Empty)

\* Answers of the generation call for the file of ingestion i: a rejection,
\* or its first n segments.
ParResponses(i) ==
  {Resp("throw", JUndef, JUndef)}
  \cup {Resp("obj", JArr([k \in 1..n |-> Segment(i, k)]), JStr(<<"s">>)) :
          n \in 0..MaxSegs}

\* processAndStoreSource of task t continues with what the extractor did.
ParGoto(t, e) ==
  CASE e.k = "await" -> [t EXCEPT !.pc = e.to]
    [] e.k = "throw" ->
         [t EXCEPT !.pc = "done", !.failedAt = e.site,
                   !.result = processAndStoreSourceCatch(t.sd, e.msg).r]
    [] OTHER -> [t EXCEPT !.pc = "tx_source", !.pr = e.pr]

\* Another ingestion has rows in an open transaction.
OtherOpen(i) == \E j \in Tasks \ {i} : par[j].tx.source # {}

\* The source the chunk creates of any ingestion connect to, were it kept
\* in one variable of the module: the one created last.
ConnectedSourceShared(i) ==
  LET open == UNION {par[j].tx.source : j \in Tasks}
  IN  CHOOSE r \in open : \A q \in open : q.id <= r.id

\* `source` of the transaction callback of ingestion i, which its chunk
\* creates connect to.
ConnectedSource(i) == CHOOSE r \in par[i].tx.source : TRUE

\* $transaction of task t rejected at `at`: its rows are rolled back and the
\* catch block builds the failure result.
ParStoreFailed(t, at, msg) ==
  [t EXCEPT !.pc = "done", !.failedAt = at, !.tx = TxNone,
            !.result = storeProcessedContentWithPrismaCatch(t.sd, msg)]

ParStart(i) ==
  /\ par[i].pc = "idle"
  /\ par' = [par EXCEPT ![i] =
               ParGoto(@, Dispatch(serverApiKey, @.path, @.sd))]
  /\ UNCHANGED <<ingestVars, embVars, spaceVars, relVars>>

\* uploadFile, getFile of waitForFilesActive, or sendMessage of ingestion i
\* returns or throws.
ParExtractReturn(i) ==
  /\ \/ /\ par[i].pc = "upload"
        /\ \E ok \in BOOLEAN :
             par' = [par EXCEPT ![i] =
                       ParGoto(@, ExtractorCatch(@.sd.type,
                                    IF ok THEN Await("poll")
                                    ELSE Throw("extract", MsgUploadFailed)))]
     \/ /\ par[i].pc = "poll"
        /\ \E state \in {"PROCESSING", "ACTIVE", "FAILED"} :
             par' = [par EXCEPT ![i] =
                       IF state = "PROCESSING" THEN @
                       ELSE ParGoto(@, ExtractorCatch(@.sd.type,
                                         waitForFilesActive(state)))]
     \/ /\ par[i].pc = "generate"
        /\ \E resp \in ParResponses(i) :
             par' = [par EXCEPT ![i] =
                       ParGoto(@, AfterGenerate(@.sd.type, resp))]
  /\ UNCHANGED <<ingestVars, embVars, spaceVars, relVars>>

\* `await tx.source.create(...)` of ingestion i returns or throws.
ParTxSourceReturn(i) ==
  /\ par[i].pc = "tx_source"
  /\ \E ok \in BOOLEAN :
       LET t    == par[i]
           desc == OrElse(JStr(t.sd.description), t.pr.summary)
           row  == SourceRow(dbNext, t.sd, desc)
           open == [source |-> {row}, chunks |-> {},
                    pending |-> 1..Len(t.pr.text.items)]
       IN  IF ~ok
           THEN /\ par' = [par EXCEPT ![i] =
                            ParStoreFailed(@, "source", MsgDbFailed)]
                /\ UNCHANGED dbNext
           ELSE /\ par' = [par EXCEPT ![i] =
                            [@ EXCEPT !.tx = open,
                                      !.overlap = @ \/ OtherOpen(i),
                                      !.pc = IF open.pending = {}
                                             THEN "tx_commit"
                                             ELSE "tx_chunks"]]
                /\ dbNext' = dbNext + 1
  /\ UNCHANGED <<db, dop>>
  /\ UNCHANGED <<ingestVars, embVars, spaceVars>>

\* One of the chunk creates of ingestion i returns or throws.
ParTxChunkReturn(i) ==
  /\ par[i].pc = "tx_chunks"
  /\ \E k \in par[i].tx.pending, ok \in BOOLEAN :
       LET t   == par[i]
           row == ChunkRow(dbNext, ConnectedSource(i).id,
                           t.pr.text.items[k].s, k - 1)
           to  == [t.tx EXCEPT !.chunks = @ \cup {row}, !.pending = @ \ {k}]
       IN  IF ~ok
           THEN /\ par' = [par EXCEPT ![i] =
                            ParStoreFailed(@, "chunk", MsgDbFailed)]
                /\ UNCHANGED dbNext
           ELSE /\ par' = [par EXCEPT ![i] =
                            [@ EXCEPT !.tx = to,
                                      !.overlap = @ \/ OtherOpen(i),
                                      !.pc = IF to.pending = {}
                                             THEN "tx_commit"
                                             ELSE "tx_chunks"]]
                /\ dbNext' = dbNext + 1
  /\ UNCHANGED <<db, dop>>
  /\ UNCHANGED <<ingestVars, embVars, spaceVars>>

\* The transaction of ingestion i commits, or the commit fails.
ParTxCommit(i) ==
  /\ par[i].pc = "tx_commit"
  /\ \E ok \in BOOLEAN :
       LET t == par[i]
       IN  IF ok
           THEN /\ db' = [db EXCEPT !.sources = @ \cup t.tx.source,
                                    !.chunks = @ \cup t.tx.chunks]
                /\ par' = [par EXCEPT ![i] =
                            [@ EXCEPT !.pc = "done", !.tx = TxNone,
                               !.result =
                                 StoreSuccess(CHOOSE r \in t.tx.source : TRUE,
                                              Len(t.pr.text.items))]]
           ELSE /\ par' = [par EXCEPT ![i] =
                            ParStoreFailed(@, "commit", MsgDbFailed)]
                /\ UNCHANGED db
  /\ UNCHANGED <<dbNext, dop>>
  /\ UNCHANGED <<ingestVars, embVars, spaceVars>>

NextPar ==
  \E i \in Tasks :
    \/ ParStart(i)
    \/ ParExtractReturn(i)
    \/ ParTxSourceReturn(i)
    \/ ParTxChunkReturn(i)
    \/ ParTxCommit(i)

\* Both calls were made; neither has run yet.
InitPar ==
  /\ IngestInit
  /\ serverApiKey
  /\ EmbIdle
  /\ RelIdle
  /\ SpacesIdle
  /\ \E type \in [Tasks -> {"pdf", "text"}] :
       par = [i \in Tasks |-> ParInput(i, type[i])]

SpecPar == InitPar /\ [][NextPar]_vars

(* ------------------------ getChunksBySourceId -------------------------- *)
\* createdAt of a Chunk row, @default(now()): rows get their ids in the
\* order in which their creates complete, and so their creation times.
createdAt(row) == row.id

RECURSIVE OrderByCreatedAtAsc(_)

\* orderBy: {createdAt: "asc"}
OrderByCreatedAtAsc(rows) ==
  IF rows = {} THEN <<>>
  ELSE LET first == CHOOSE r \in rows :
                      \A q \in rows : createdAt(r) <= createdAt(q)
       IN  <<first>> \o OrderByCreatedAtAsc(rows \ {first})

\* prisma.chunk.findMany({where: {sourceId}, orderBy: {createdAt: "asc"}})
getChunksBySourceId(sourceId) ==
  OrderByCreatedAtAsc({c \in chunks : c.sourceId = sourceId})

(* ------------- spaces: creation, the grid, deleteSpaces ---------------- *)
MaxSpaces == 3

MaxListed == 2

MaxIds == 2

NameMaxLen == 50

NewCardId == "new"

\* The ids the database hands to the spaces it creates, in order.
SpaceIds == <<"s1", "s2", "s3", "s4", "s5", "s6">>

SpaceRow(id, name) == [id |-> id, name |-> name]

\* The text column a database stores a JavaScript value in.
TextOf(v) == IF v.t = "string" THEN v.s ELSE <<"5">>

\* createSpace: the row is inserted as given; the database refuses a
\* missing name (NOT NULL) and may refuse anything (ok FALSE), and the
\* error is thrown as "Failed to create space".
createSpace(d, id, name, ok) ==
  IF ok /\ name.t # "undefined"
  THEN [db |-> [d EXCEPT !.spaces = @ \cup {SpaceRow(id, TextOf(name))}],
        k |-> "ok"]
  ELSE [db |-> d, k |-> "throw"]

\* A request body of POST /api/spaces: text that request.json() rejects,
\* the JSON value null, or a JSON object with its name (JUndef: no name).
SpaceBody(parse, null, name) == [parse |-> parse, null |-> null, name |-> name]

Bodies ==
  {SpaceBody(FALSE, FALSE, JUndef), SpaceBody(TRUE, TRUE, JUndef)}
  \cup {SpaceBody(TRUE, FALSE, n) : n \in {JUndef, JStr(Empty), JStr(<<"a">>), JNum}}

\* POST without `if (!body.name)`.
PostValidationSkipped(b) ==
  IF ~b.parse \/ b.null THEN 500 ELSE 0

\* POST up to the call of createSpace: the status answered, 0 when
\* createSpace is called.  request.json() throws on a body that is not
\* JSON and body.name throws on null; both end in the catch block.
PostValidation(b) ==
  IF ~b.parse \/ b.null THEN 500
  ELSE IF ~Truthy(b.name) THEN 400
  ELSE 0

\* A request, the status it was answered with and whether it stored a row.
Req(path, b, status, created) ==
  [path |-> path, parse |-> b.parse, null |-> b.null, name |-> b.name,
   status |-> status, created |-> created]

\* One creation through `path` whose validation answered `status`.
Create(path, b, status) ==
  IF status # 0
  THEN /\ req' = Req(path, b, status, FALSE)
       /\ UNCHANGED <<db, dbNext>>
  ELSE \E ok \in BOOLEAN :
         LET o == createSpace(db, SpaceIds[dbNext], b.name, ok)
         IN  /\ db' = o.db
             /\ dbNext' = IF o.k = "ok" THEN dbNext + 1 ELSE dbNext
             /\ req' = Req(path, b, IF o.k = "ok" THEN 201 ELSE 500,
                            o.db # db)

\* POST /api/spaces
PostSpaces ==
  /\ dbNext <= MaxSpaces
  /\ \E b \in Bodies : Create("POST", b, PostValidation(b))
  /\ UNCHANGED <<ingestVars, embVars, dop, par, grid, del>>

\* CreateSpaceDialog.handleSubmit: `if (!name) return;` (status 1 stands
\* for a return before createSpace is called).
DialogSubmit ==
  /\ dbNext <= MaxSpaces
  /\ \E name \in {Empty, <<"a">>} :
       Create("dialog", SpaceBody(TRUE, FALSE, JStr(name)),
              IF ~Truthy(JStr(name)) THEN 1 ELSE 0)
  /\ UNCHANGED <<ingestVars, embVars, dop, par, grid, del>>

\* formSchema.name: z.string().min(1).max(50)
formSchema(name) == Len(name) >= 1 /\ Len(name) <= NameMaxLen

\* NewSpacePage: handleSubmit(onSubmit) calls onSubmit only with values
\* formSchema accepts, and onSubmit returns when nobody is logged in.
PageSubmit ==
  /\ dbNext <= MaxSpaces
  /\ \E name \in {Empty, <<"a">>, [n \in 1..(NameMaxLen + 1) |-> "x"]},
        user \in BOOLEAN :
       Create("page", SpaceBody(TRUE, FALSE, JStr(name)),
              IF ~formSchema(name) \/ ~user THEN 1 ELSE 0)
  /\ UNCHANGED <<ingestVars, embVars, dop, par, grid, del>>

NextCreate ==
  \/ PostSpaces
  \/ DialogSubmit
  \/ PageSubmit

InitCreate ==
  /\ IngestInit
  /\ EmbIdle
  /\ ExtIdle

SpecCreate == InitCreate /\ [][NextCreate]_vars

\* deleteSpaces(ids) up to its first await: an empty list returns at once.
Called(ids, caller) ==
  [NoDel EXCEPT !.pc = IF ids = <<>> THEN "returned" ELSE "loop",
                !.caller = caller, !.ids = ids]

\* The ids a caller may pass: the spaces there are and an id of no space.
IdSeqs ==
  LET ids == Ids(db.spaces) \cup {SpaceIds[dbNext]}
  IN  UNION {[1..n -> ids] : n \in 0..MaxIds}

\* deleteSpaces called from elsewhere than the grid.
DeleteSpacesCall ==
  /\ del.pc # "loop"
  /\ grid.pc = "ready"
  /\ \E ids \in IdSeqs : del' = Called(ids, "direct")
  /\ UNCHANGED <<ingestVars, embVars, relVars, par, grid, req>>

\* A loop that stops at the first id whose delete failed.
NextAfterStopsOnFailure(ids, i, deleted) ==
  IF deleted THEN i + 1 ELSE Len(ids) + 1

\* for (const id of ids): the index the loop goes on with.
NextAfter(ids, i, deleted) == i + 1

\* One pass of the loop of deleteSpaces: deleteSpace(id) resolved to true
\* or false (it never rejects), the id is pushed to success or failed.
DeleteSpacesStep ==
  /\ del.pc = "loop"
  /\ \E ok \in BOOLEAN :
       LET id == del.ids[del.i]
           o  == deleteSpace(db, id, ok)
           i  == NextAfter(del.ids, del.i, o.ok)
       IN  /\ db' = o.db
           /\ del' = [del EXCEPT
                !.i = i,
                !.pc = IF i > Len(del.ids) THEN "returned" ELSE "loop",
                !.attempts = Append(@, [id |-> id, ok |-> o.ok]),
                !.success = IF o.ok THEN Append(@, id) ELSE @,
                !.failed = IF o.ok THEN @ ELSE Append(@, id)]
  /\ UNCHANGED <<ingestVars, embVars, dbNext, dop, par, grid, req>>

\* handleSpaceClick without its first line.
handleSpaceClickUnguarded(g, spaceId) ==
  [g EXCEPT !.selectedSpaces =
     IF \E k \in 1..Len(@) : @[k] = spaceId
     THEN SelectSeq(@, LAMBDA id : id # spaceId)
     ELSE Append(@, spaceId)]

\* handleSpaceClick: nothing outside edit mode or on the "new" card, else
\* the id leaves the selection when it is in it and joins it at the end
\* when it is not.
handleSpaceClick(g, spaceId) ==
  IF ~g.isEditMode \/ spaceId = NewCardId THEN g
  ELSE [g EXCEPT !.selectedSpaces =
          IF \E k \in 1..Len(@) : @[k] = spaceId
          THEN SelectSeq(@, LAMBDA id : id # spaceId)
          ELSE Append(@, spaceId)]

toggleEditMode(g) ==
  [g EXCEPT !.isEditMode = ~@, !.selectedSpaces = <<>>]

\* The keydown listener of the effect.
handleKeyDown(g, key) ==
  IF key = "Escape" /\ g.isEditMode
  THEN [g EXCEPT !.isEditMode = FALSE, !.selectedSpaces = <<>>]
  ELSE g

\* `isEditMode && selectedSpaces.length > 0`: the Dialog with the trash
\* button is rendered, else the button of toggleEditMode is.
DialogRendered(g) == g.isEditMode /\ Len(g.selectedSpaces) > 0

\* The page is loaded: the grid mounts with the spaces there are.
GridLoad ==
  /\ grid.pc = "ready"
  /\ grid' = Mounted(Ids(db.spaces))
  /\ UNCHANGED <<ingestVars, embVars, relVars, par, del, req>>

\* A click on a card.
SpaceClick ==
  /\ \E spaceId \in grid.spaces \cup {NewCardId} :
       grid' = handleSpaceClick(grid, spaceId)
  /\ UNCHANGED <<ingestVars, embVars, relVars, par, del, req>>

\* A click on the floating button while it is the one of toggleEditMode.
ToggleClick ==
  /\ ~DialogRendered(grid)
  /\ grid' = toggleEditMode(grid)
  /\ UNCHANGED <<ingestVars, embVars, relVars, par, del, req>>

\* A key is pressed; Escape also closes a Dialog that is open
\* (onOpenChange).
KeyDown ==
  /\ \E key \in {"Escape", "a"} :
       LET closed ==
             IF key = "Escape" /\ DialogRendered(grid)
             THEN [grid EXCEPT !.isDialogOpen = FALSE]
             ELSE grid
       IN  grid' = handleKeyDown(closed, key)
  /\ UNCHANGED <<ingestVars, embVars, relVars, par, del, req>>

\* The trash button opens the Dialog, Cancel closes it.
DialogOpenChange ==
  /\ DialogRendered(grid)
  /\ grid' = [grid EXCEPT !.isDialogOpen = ~@]
  /\ UNCHANGED <<ingestVars, embVars, relVars, par, del, req>>

\* handleDelete up to its await: deleteSpaces(selectedSpaces) is called.
HandleDelete ==
  /\ DialogRendered(grid) /\ grid.isDialogOpen
  /\ grid.pc = "ready"
  /\ del.pc # "loop"
  /\ del' = Called(grid.selectedSpaces, "grid")
  /\ grid' = [grid EXCEPT !.pc = "deleting"]
  /\ UNCHANGED <<ingestVars, embVars, relVars, par, req>>

\* handleDelete after its await: the selection, the edit mode and the
\* dialog are cleared and window.location.reload() mounts the grid anew.
HandleDeleteReturn ==
  /\ grid.pc = "deleting"
  /\ del.pc = "returned" /\ del.caller = "grid"
  /\ LET cleared == [grid EXCEPT !.selectedSpaces = <<>>,
                                 !.isEditMode = FALSE,
                                 !.isDialogOpen = FALSE]
     IN  grid' = [cleared EXCEPT !.spaces = Ids(db.spaces), !.pc = "ready"]
  /\ UNCHANGED <<ingestVars, embVars, relVars, par, del, req>>

NextSpaces ==
  \/ DeleteSpacesCall
  \/ DeleteSpacesStep
  \/ GridLoad
  \/ SpaceClick
  \/ ToggleClick
  \/ KeyDown
  \/ DialogOpenChange
  \/ HandleDelete
  \/ HandleDeleteReturn

\* The spaces that n creations stored.
Listed(n) == {SpaceRow(SpaceIds[k], <<"a">>) : k \in 1..n}

\* The page was loaded on a database that holds some spaces.
InitSpaces ==
  /\ IngestInit
  /\ EmbIdle
  /\ \E n \in 0..MaxListed :
       /\ db = [EmptyDb EXCEPT !.spaces = Listed(n)]
       /\ dbNext = n + 1
       /\ grid = Mounted(Ids(Listed(n)))
  /\ dop = NoDop
  /\ par = NoTasks
  /\ del = NoDel
  /\ req = NoReq

SpecSpaces == InitSpaces /\ [][NextSpaces]_vars

(* ============================ properties =============================== *)
\* The rows an ingestion added to the Prisma tables.
NewSources == sources \ pre.sources

NewChunks == chunks \ pre.chunks

\* A failure result as the claims describe it.
IsFailure(r) == r # NoResult /\ ~r.success /\ r.error # Empty

(* C1: processAndStoreSource and processClientFileAndStore never throw or   *)
(* reject: no exception escapes them, and once one of them has failed       *)
(* anywhere (input check, extraction, provider call, HTTP store call,       *)
(* persistence) and is back at its caller, the caller holds a result with   *)
(* success = false and a non-empty error; every result with success = false *)
(* has a non-empty error.  The caller is then free to start the next file.  *)
C1_NeverThrows ==
  /\ pc # "rejected"
  /\ (entry \in {"server", "client"} /\ pc = "idle") =>
       /\ result # NoResult
       /\ failedAt # "none" => IsFailure(result)
       /\ ~result.success => result.error # Empty

\* A provider call of an extractor failed and the caller of
\* processAndStoreSource holds the failure result.
C1_Witness ==
  /\ pc = "idle"
  /\ entry = "server"
  /\ failedAt = "extract"
  /\ "generate" \in calls
  /\ IsFailure(result)

(* C2: when the extractor step of processAndStoreSource fails (its own      *)
(* input checks included), the persistence step is never invoked, no Source *)
(* or Chunk row is written, and the result has success = false.             *)
C2_ExtractFailureSkipsStore ==
  (entry = "server" /\ failedAt \in {"input", "extract"}) =>
    /\ "db" \notin calls
    /\ tx = TxNone
    /\ Tables = pre
    /\ pc = "idle"
    /\ IsFailure(result)

\* An extractor failed after its provider calls were issued.
C2_Witness ==
  /\ entry = "server"
  /\ failedAt = "extract"
  /\ "upload" \in calls
  /\ pc = "idle"
  /\ ~result.success

(* C3: in storeProcessedContentWithPrisma, when a chunk create fails after  *)
(* the Source was created, the whole transaction is rolled back: no Source  *)
(* row and no Chunk row of this ingestion exists afterwards, and the result *)
(* returned has success = false and chunkCount 0.                           *)
C3_ChunkFailureRollsBack ==
  failedAt = "chunk" =>
    /\ NewSources = {}
    /\ NewChunks = {}
    /\ tx = TxNone
    /\ pc = "idle" => IsFailure(result) /\ result.chunkCount = 0
    /\ pc = "c_response" => IsFailure(http.body) /\ http.body.chunkCount = 0
    /\ pc \in {"idle", "c_response"}

\* A chunk create failed in an ingestion of two segments.
C3_Witness ==
  /\ failedAt = "chunk"
  /\ entry = "server"
  /\ pc = "idle"
  /\ Len(pr.text.items) = 2
  /\ ~result.success

(* C4: the storage step of POST /api/store-source (storeProcessedContent,   *)
(* Supabase) leaves no partial state: when inserting the chunks fails after *)
(* the source row was inserted, no source row of this request remains.      *)
C4_NoPartialState ==
  failedAt = "sb_chunks" =>
    /\ sbSources = pre.sbSources
    /\ sbChunks = pre.sbChunks

(* C5: a successful ingestion through storeProcessedContentWithPrisma       *)
(* created exactly one Source, and exactly one Chunk per text segment: the  *)
(* chunk of the i-th segment (counting from 0) has that segment as content  *)
(* and chunk_index i, every new chunk references the new Source, and the    *)
(* reported chunkCount is the number of segments.                           *)
C5_OneChunkPerSegment ==
  (pc = "idle" /\ result # NoResult /\ result.success /\ "db" \in calls) =>
    LET segs == pr.text.items
    IN  /\ Cardinality(NewSources) = 1
        /\ \A src \in NewSources : result.sourceId = src.id
        /\ result.chunkCount = Len(segs)
        /\ Cardinality(NewChunks) = Len(segs)
        /\ \A c \in NewChunks :
             /\ c.chunk_index \in 0..(Len(segs) - 1)
             /\ c.content = segs[c.chunk_index + 1].s
             /\ \E src \in NewSources : c.sourceId = src.id
        /\ \A i \in 0..(Len(segs) - 1) :
             Cardinality({c \in NewChunks : c.chunk_index = i}) = 1

\* An ingestion of two segments succeeded.
C5_Witness ==
  /\ pc = "idle"
  /\ entry = "server"
  /\ result.success
  /\ result.chunkCount = 2
  /\ Cardinality(NewChunks) = 2

\* s is the first n characters of d.
IsPrefixOfLength(s, d, n) ==
  /\ Len(s) = IF Len(d) < n THEN Len(d) ELSE n
  /\ \A i \in 1..Len(s) : s[i] = d[i]

C7_NoTranscriptFails ==
  (entry = "server" /\ transcript \in {NoTranscript, <<>>}) =>
    /\ pc = "idle"
    /\ IsFailure(result)
    /\ Contains(result.error, "transcript")
    /\ calls = {"fetch"}
    /\ Tables = pre
    /\ tx = TxNone

\* The fetch answered with an empty list of cues.
C7_Witness ==
  /\ entry = "server"
  /\ sd.type = "youtube"
  /\ transcript = <<>>
  /\ pc = "idle"
  /\ ~result.success

\* The words of a text: its maximal runs of characters that are not
\* whitespace.
WordsOf(s) ==
  LET F[i \in 0..Len(s)] ==
        IF i = 0 THEN [done |-> <<>>, cur |-> <<>>]
        ELSE IF s[i] \in {" ", "\n", "\t", "\r"}
             THEN [done |-> IF F[i - 1].cur = <<>> THEN F[i - 1].done
                            ELSE Append(F[i - 1].done, F[i - 1].cur),
                   cur  |-> <<>>]
             ELSE [done |-> F[i - 1].done, cur |-> Append(F[i - 1].cur, s[i])]
      last == F[Len(s)]
  IN  IF last.cur = <<>> THEN last.done ELSE Append(last.done, last.cur)

\* The words of all cues, in order.
WordsOfCues(cues) ==
  LET G[i \in 0..Len(cues)] ==
        IF i = 0 THEN <<>> ELSE G[i - 1] \o WordsOf(cues[i])
  IN  G[Len(cues)]

\* The cues joined by spaces begin (end) with whitespace.
CuesLeadWs(cues) ==
  IF cues[1] = <<>> THEN Len(cues) > 1
  ELSE cues[1][1] \in {" ", "\n", "\t", "\r"}

CuesTrailWs(cues) ==
  LET c == cues[Len(cues)]
  IN  IF c = <<>> THEN Len(cues) > 1
      ELSE c[Len(c)] \in {" ", "\n", "\t", "\r"}

\* o is the cues joined in order by spaces, each run of whitespace being one
\* space.
IsCollapsedJoin(o, cues) ==
  /\ \A i \in 1..Len(o) : o[i] \notin {"\n", "\t", "\r"}
  /\ \A i \in 1..(Len(o) - 1) : ~(o[i] = " " /\ o[i + 1] = " ")
  /\ WordsOf(o) = WordsOfCues(cues)
  /\ (o # <<>> /\ o[1] = " ") <=> CuesLeadWs(cues)
  /\ (o # <<>> /\ o[Len(o)] = " ") <=> CuesTrailWs(cues)

\* The fetch answered with at least one cue.
HasCues ==
  transcript \notin {NotFetched, FetchThrew, NoTranscript} /\ Len(transcript) > 0

(* C8: without a server AI key, processYouTubeVideo on a transcript of at   *)
(* least one cue does not fail and makes no AI call; it returns exactly one *)
(* chunk, the cue texts joined in order with every run of whitespace        *)
(* collapsed to one space, and the placeholder summary.                     *)
C8_KeylessTranscript ==
  (entry = "server" /\ ~serverApiKey /\ HasCues) =>
    /\ failedAt \notin {"input", "extract"}
    /\ "yt_generate" \notin calls
    /\ pr.text.t = "array"
    /\ Len(pr.text.items) = 1
    /\ pr.text.items[1].str
    /\ IsCollapsedJoin(pr.text.items[1].s, transcript)
    /\ pr.summary = JStr(MsgPlaceholderSummary)

\* Two cues with runs of whitespace inside and at their border.
C8_Witness ==
  /\ ~serverApiKey
  /\ transcript = << <<"a", " ">>, <<"\n", "a">> >>
  /\ pr.text.items = <<S(<<"a", " ", "a">>)>>

\* The extensions processImage and processAudio accept, in lower case.
ImageExtensions ==
  {<<".","j","p","g">>, <<".","j","p","e","g">>, <<".","p","n","g">>,
   <<".","w","e","b","p">>, <<".","g","i","f">>}

AudioExtensions ==
  {<<".","m","p","3">>, <<".","w","a","v">>, <<".","o","g","g">>}

\* The ingestion in progress is of a file whose extension is not supported.
UnsupportedExtension ==
  /\ entry = "server"
  /\ filePath # Empty
  /\ \/ sd.type = "image" /\ toLowerCase(extname(filePath)) \notin ImageExtensions
     \/ sd.type = "audio" /\ toLowerCase(extname(filePath)) \notin AudioExtensions

(* C9: processImage and processAudio reject a file whose extension is not   *)
(* in their list before any upload, poll or generation call; the rejection  *)
(* is the only effect: no external call, no row, a failure result.          *)
C9_UnsupportedExtension ==
  UnsupportedExtension =>
    /\ calls = {}
    /\ pc = "idle"
    /\ IsFailure(result)
    /\ Tables = pre
    /\ tx = TxNone

\* An image with extension .bmp was rejected.
C9_Witness ==
  /\ UnsupportedExtension
  /\ sd.type = "image"
  /\ filePath = PathBmp
  /\ pc = "idle"
  /\ ~result.success

\* The characters that end a video id in a URL.
IdStops == {"#", "&", "?"}

\* url holds, right after one of the markers, a run of exactly 11 characters
\* up to the next # & ? or the end.
HasVideoId(url) ==
  \E p \in 1..Len(url), k \in 1..Len(Markers) :
    /\ MatchAt(url, p, Markers[k])
    /\ LET start == p + Len(Markers[k])
       IN  /\ start + 10 <= Len(url)
           /\ \A i \in start..(start + 10) : url[i] \notin IdStops
           /\ start + 11 <= Len(url) => url[start + 11] \in IdStops

\* The arguments of the ingestion in progress are missing or invalid.
InvalidInput ==
  /\ entry = "server"
  /\ \/ sd.type \in {"pdf", "image", "audio"} /\ filePath = Empty
     \/ sd.type = "youtube" /\ (sd.url = Empty \/ ~HasVideoId(sd.url))
     \/ sd.type \notin {"pdf", "image", "audio", "youtube", "text"}

(* C10: processAndStoreSource reports missing or invalid input (no file     *)
(* path for pdf, image or audio; no URL, or a URL without an 11-character   *)
(* video id, for youtube; an unknown type) as a failure at once: no         *)
(* extractor, provider, fetch or persistence call is made.                  *)
C10_InvalidInput ==
  InvalidInput =>
    /\ calls = {}
    /\ pc = "idle"
    /\ IsFailure(result)
    /\ Tables = pre
    /\ tx = TxNone

\* A URL whose id has 12 characters was rejected.
C10_Witness ==
  /\ InvalidInput
  /\ sd.type = "youtube"
  /\ sd.url = UrlTooLong
  /\ pc = "idle"
  /\ ~result.success

\* The extractors that upload a file and poll its state.
FileExtraction == entry = "server" /\ sd.type \in {"pdf", "image", "audio"}

(* C11: polling in waitForFilesActive has an upper bound: once the provider *)
(* has answered PROCESSING as often as the bound allows, the wait is over   *)
(* (with a timeout failure) and the ingestion no longer waits for the       *)
(* provider.  The loop of the code counts nothing; MaxPolls stands for the  *)
(* bound, whatever its value.                                               *)
C11_PollingBounded == ~(FileExtraction /\ pc = "poll" /\ polls >= MaxPolls)

(* C12: in the extraction of a pdf, image or audio file the uploaded file   *)
(* is polled while it is PROCESSING; the generation call is issued only     *)
(* after ACTIVE was observed; and when a terminal state other than ACTIVE   *)
(* was observed the extraction has failed with an error that names the      *)
(* failed file.                                                             *)
C12_PolledUntilTerminal ==
  FileExtraction =>
    /\ "generate" \in calls => fileState = "ACTIVE"
    /\ fileState = "PROCESSING" => pc = "poll"
    /\ fileState = "FAILED" =>
         /\ pc = "idle"
         /\ IsFailure(result)
         /\ Contains(result.error, UploadedFileName)

\* text is an array of strings and summary a string.
WellFormedResponse(r) ==
  /\ r.text.t = "array"
  /\ \A i \in 1..Len(r.text.items) : r.text.items[i].str
  /\ r.summary.t = "string"

(* C13: processPDF, processImage and processAudio fail when the parsed JSON *)
(* of the provider has a text that is not an array of strings or a summary  *)
(* that is not a string: the ingestion has failed in the extraction, no     *)
(* ProcessingResult was built of the answer and persistence was not called. *)
C13_ResponseValidated ==
  (FileExtraction /\ response.kind = "obj" /\ ~WellFormedResponse(response)) =>
    /\ failedAt = "extract"
    /\ pr = NoPr
    /\ "db" \notin calls
    /\ pc = "idle"
    /\ IsFailure(result)

\* A result of the shape of SourceProcessingResult, as a store function
\* builds it.
IsIngestionResult(r) ==
  /\ r # NoResult
  /\ r.success => r.chunkCount >= 0 /\ r.sourceId # 0
  /\ ~r.success => r.chunkCount = 0 /\ r.sourceId = 0 /\ r.error # Empty

C15_RoundTrip ==
  (codec.stage = "decoded" /\ codec.src = "vector") =>
    /\ codec.out.k = "ok"
    /\ Len(codec.out.v) = Len(codec.v)
    /\ \A i \in 1..Len(codec.v) : codec.out.v[i] = codec.v[i]

\* A vector of two numbers was decoded from a view at a non-zero offset.
C15_Witness ==
  /\ codec.stage = "decoded"
  /\ codec.src = "vector"
  /\ Len(codec.v) = 2
  /\ codec.v[1] # codec.v[2]
  /\ codec.buf.byteOffset > 0
  /\ codec.out.v = codec.v

(* C16: bufferToEmbedding fails on every byte string whose length is not a  *)
(* multiple of 4 and returns no vector for it: the input is neither         *)
(* truncated nor padded.                                                    *)
C16_MalformedLength ==
  (codec.stage = "decoded" /\ codec.buf.byteLength % 4 # 0) =>
    /\ codec.out.k = "throw"
    /\ codec.out.v = <<>>

\* A Buffer of five bytes was refused.
C16_Witness ==
  /\ codec.stage = "decoded"
  /\ codec.buf.byteLength = 5
  /\ codec.out.k = "throw"

(* C17: all embeddings stored by createChunk and updateChunk have the same  *)
(* number of components: a generated vector of another length is never      *)
(* encoded and stored next to them.                                         *)
C17_OneDimensionality ==
  \A r1, r2 \in echunks : Len(r1.embedding) = Len(r2.embedding)

(* C18: searchSimilarContent with limit <= 0 fails with an invalid-argument *)
(* error before the query is embedded or the similarity search is issued:   *)
(* no external call is made for it.                                         *)
C18_LimitChecked ==
  (eop.name = "searchSimilarContent" /\ eop.limit <= 0) =>
    /\ ecalls = {}
    /\ epc = "idle"
    /\ eret.k = "throw"

C20_EmbeddingOfContent ==
  \A r \in echunks :
    LET d == bufferToEmbedding(Buffer(r.embedding, 0, Len(r.embedding)))
    IN  /\ d.k = "ok"
        /\ d.v = VecOf(Truncated(r.content), Len(d.v))

\* updateChunk has replaced the content of a chunk.
C20_Witness ==
  /\ eop.name = "updateChunk"
  /\ eret.k = "ok"
  /\ \E r \in echunks :
       /\ r.id = eop.id
       /\ r.content = eop.content
       /\ r.original # r.content
       /\ Len(r.embedding) > 0


\* The rows of the children of rel that reference no row of its parent.
Orphans(d, rel) ==
  {r \in d[rel.child] : r[rel.field] \notin Ids(d[rel.parent])}

(* C21: deleting a Space deletes every Source, Note and Chat it owns, and   *)
(* deleting a Source (directly or through its Space) deletes all of its     *)
(* Chunks: after any sequence of creations and deletions every Chunk        *)
(* belongs to exactly one existing Source and every Source, Note and Chat   *)
(* to exactly one existing Space.                                           *)
C21_CascadeKeepsOwners ==
  /\ \A rel \in {x \in Relations : x.parent \in {"spaces", "sources"}} :
       /\ Orphans(db, rel) = {}
       /\ \A r \in db[rel.child] :
            Cardinality({p \in db[rel.parent] : p.id = r[rel.field]}) = 1
  /\ (dop.op = "delete" /\ dop.table = "spaces") =>
       /\ \A t \in {"sources", "notes", "chats"} :
            \A r \in db[t] : r.spaceId # dop.id
       /\ \A c \in db.chunks : c.sourceId \notin dop.removed
  /\ (dop.op = "delete" /\ dop.table = "sources") =>
       \A c \in db.chunks : c.sourceId # dop.id

\* A space was deleted and with it at least three rows it owned: a source
\* with a chunk and a note or a chat, or more.
C21_Witness ==
  /\ dop.op = "delete"
  /\ dop.table = "spaces"
  /\ Cardinality(dop.removed) >= 4
  /\ db.spaces # {}

(* C22: a Citation is deleted when the chat message it belongs to is        *)
(* deleted (no statement leaves a citation behind whose message it          *)
(* removed), and deleting a Citation removes that one row and changes no    *)
(* other, the Chunk it points to included.                                  *)
C22_CitationFollowsMessage ==
  /\ dop.nulled \cap Ids(db.citations) = {}
  /\ (dop.op = "delete" /\ dop.table = "citations") =>
       /\ dop.removed = {dop.id}
       /\ dop.nulled = {}

\* The chunks of source src as (chunk_index, content) pairs.
ChunksOf(src) ==
  {<<c.chunk_index, c.content>> : c \in {x \in db.chunks : x.sourceId = src.id}}

(* C23: two ingestions that run concurrently for different sources do not   *)
(* interfere.  Under every interleaving of their suspension points, each    *)
(* one that returned success has its own Source, whose Chunks are exactly   *)
(* its own segments with chunk_index 0..n-1, whatever the other one did     *)
(* before or after; and the committed rows are those of the successful      *)
(* ingestions only: one that failed or was rolled back left no row and took *)
(* none away.                                                               *)
C23_ConcurrentIngestions ==
  LET done == {i \in Tasks : par[i].pc = "done" /\ par[i].result.success}
  IN  /\ \A i \in done :
           LET segs == par[i].pr.text.items
               own  == {r \in db.sources : r.id = par[i].result.sourceId}
           IN  /\ Cardinality(own) = 1
               /\ \A src \in own :
                    /\ src.name = NameOf(i)
                    /\ ChunksOf(src) = {<<k - 1, segs[k].s>> : k \in 1..Len(segs)}
                    /\ Cardinality({c \in db.chunks : c.sourceId = src.id})
                         = Len(segs)
               /\ par[i].result.chunkCount = Len(segs)
      /\ Ids(db.sources) = {par[i].result.sourceId : i \in done}
      /\ \A c \in db.chunks : c.sourceId \in Ids(db.sources)
      /\ \A i \in Tasks :
           (par[i].pc = "done" /\ ~par[i].result.success) =>
             /\ par[i].tx = TxNone
             /\ par[i].result.error # Empty

\* Both ingestions wrote inside transactions that were open at the same
\* time; one committed its two segments, the other was rolled back at a chunk
\* create.
C23_Witness ==
  \E i \in Tasks : \E j \in Tasks \ {i} :
    /\ par[i].pc = "done" /\ par[i].result.success
    /\ par[i].result.chunkCount = 2
    /\ par[i].overlap
    /\ par[j].pc = "done" /\ par[j].failedAt = "chunk"
    /\ par[j].overlap

(* C24: every persisted Chunk has non-empty content: whatever segments the  *)
(* extractor or the provider returns, empty strings included, no row of     *)
(* Chunk (Prisma) and no row of source_chunks (Supabase) holds the empty    *)
(* string as content.                                                       *)
C24_NonEmptyContent ==
  /\ \A c \in chunks : c.content # Empty
  /\ \A c \in sbChunks : c.content # S(Empty)

(* C26: the Chunks of a Source read back with getChunksBySourceId, which    *)
(* orders them by creation time, come in extraction order: their            *)
(* chunk_index ascends along the list.                                      *)
C26_ReadBackInOrder ==
  \A src \in sources :
    LET rows == getChunksBySourceId(src.id)
    IN  \A k \in 1..(Len(rows) - 1) :
          rows[k].chunk_index < rows[k + 1].chunk_index

C28_CreateNeedsEmbeddingAndOwner ==
  (eop.name = "createChunk") =>
    /\ "db" \in ecalls => eop.hasBuf /\ eop.hasUser
    /\ (epc = "idle" /\ (~eop.hasBuf \/ ~eop.hasUser)) =>
         /\ "db" \notin ecalls
         /\ echunks = eop.pre
         /\ eret.k = "throw"
         /\ eret.msg = MsgCreateChunkFailed
    /\ (epc = "idle" /\ eret.k = "ok") =>
         /\ eret.data[1].embedding = eop.buf.buffer
         /\ echunks = eop.pre \cup {eret.data[1]}

\* The embedding was generated, no userId was supplied, and the call failed.
C28_Witness ==
  /\ eop.name = "createChunk"
  /\ epc = "idle"
  /\ eop.hasBuf
  /\ ~eop.hasUser
  /\ eret.k = "throw"
  /\ eret.msg = MsgCreateChunkFailed
  /\ echunks # {}

\* The ids of the passes of deleteSpaces whose delete came out as ok.
IdsWith(attempts, ok) ==
  LET sel == SelectSeq(attempts, LAMBDA a : a.ok = ok)
  IN  [k \in 1..Len(sel) |-> sel[k].id]

\* C25 as stated: every stored space has a non-empty name, and a request to
\* POST /api/spaces whose body carries no name or an empty one is answered
\* 400 and creates nothing.
C25_MissingNameIs400 ==
  /\ \A r \in db.spaces : r.name # Empty
  /\ req.path = "POST" /\ req.parse /\ ~Truthy(req.name)
       => req.status = 400 /\ ~req.created

\* C25: every stored space has a non-empty name on every creation path; a
\* POST whose body is a JSON value other than null with a missing or empty
\* name is answered 400, a POST whose body is null or not JSON is answered
\* 500, the dialog and the page return before createSpace on an empty
\* name; none of these creates a space.
C25_NamedSpaces ==
  /\ \A r \in db.spaces : r.name # Empty
  /\ req.path = "POST" /\ req.parse /\ ~req.null /\ ~Truthy(req.name)
       => req.status = 400 /\ ~req.created
  /\ req.path = "POST" /\ (~req.parse \/ req.null)
       => req.status = 500 /\ ~req.created
  /\ req.path \in {"dialog", "page"} /\ ~Truthy(req.name)
       => req.status = 1 /\ ~req.created

\* A POST with the name "" was answered 400 while spaces are stored.
C25_Witness ==
  /\ req.path = "POST" /\ req.parse /\ ~req.null
  /\ req.name = JStr(Empty)
  /\ req.status = 400
  /\ db.spaces # {}

\* C29: deleteSpaces passes over the ids in input order whatever the
\* earlier passes gave, returns only after the last one, and its lists
\* success and failed hold, in order, the ids whose delete succeeded and
\* the ids whose delete failed, every pass landing in exactly one of them.
C29_DeleteSpacesPartition ==
  /\ del.pc \in {"idle", "loop", "returned"}
  /\ Len(del.attempts) <= Len(del.ids)
  /\ \A k \in 1..Len(del.attempts) : del.attempts[k].id = del.ids[k]
  /\ del.pc = "loop" => del.i = Len(del.attempts) + 1 /\ del.i <= Len(del.ids)
  /\ del.pc = "returned" => Len(del.attempts) = Len(del.ids)
  /\ del.success = IdsWith(del.attempts, TRUE)
  /\ del.failed = IdsWith(del.attempts, FALSE)
  /\ Len(del.success) + Len(del.failed) = Len(del.attempts)

\* deleteSpaces returned after a delete that failed and a later one that
\* succeeded.
C29_Witness ==
  /\ del.pc = "returned"
  /\ \E j, k \in 1..Len(del.attempts) :
       j < k /\ ~del.attempts[j].ok /\ del.attempts[k].ok

\* C30: the selection of the grid is empty outside edit mode, never holds
\* the id "new" and never holds an id twice.
C30_SelectionOnlyInEditMode ==
  /\ ~grid.isEditMode => grid.selectedSpaces = <<>>
  /\ \A k \in 1..Len(grid.selectedSpaces) :
       grid.selectedSpaces[k] # NewCardId
  /\ \A j, k \in 1..Len(grid.selectedSpaces) :
       j # k => grid.selectedSpaces[j] # grid.selectedSpaces[k]

\* After a deletion confirmed in the grid deleted a space, the grid is in
\* edit mode again with a space selected.
C30_Witness ==
  /\ del.caller = "grid" /\ del.pc = "returned" /\ del.success # <<>>
  /\ grid.pc = "ready"
  /\ grid.isEditMode
  /\ grid.selectedSpaces # <<>>

====
